---------------------------- MODULE Spec2Model ----------------------------
(***************************************************************************)
(* A model of the NeverSQL storage engine: the page allocator (FreeList    *)
(* and DataAccessLayer), the page cache with its write-ahead log, the      *)
(* overflow chains of the entry creator and the B-tree of a collection.    *)
(* Each subsystem has its own specification over its own variables; the    *)
(* variables of the other subsystems stay at their initial values.         *)
(***************************************************************************)
EXTENDS Integers, Sequences, FiniteSets, Bags, TLC

VARIABLES
  free_list_,     \* DataAccessLayer::free_list_ (FreeList members)
  file_pages,     \* size of neversql.db in pages
  live,           \* history: pages handed out and not released since
  released,       \* history: pages in the order they were freed
  dalOp           \* history: the last DAL call, its argument and result,
                  \* and freed_pages_ / released as they were before it

dalVars == <<free_list_, file_pages, live, released, dalOp>>

VARIABLES
  page_cache,     \* PageCache: page_descriptors_, page_number_to_slot_,
                  \* cache_free_list_, next_victim_
  wal_,           \* PageCache::wal_ (WriteAheadLog members and wal.log)
  handles,        \* the live RCPage objects: how many of each
                  \* (page_number_, descriptor_index_)
  last_update,    \* history: per page, the LSN of its last UPDATE record
  closed,         \* the PageCache has been destroyed
  cacheOp         \* history: the last cache call and what it did

cacheVars == <<page_cache, wal_, handles, last_update, closed, cacheOp>>

VARIABLES
  tree,           \* BTreeManager: its members and the pages of its tree
  stored,         \* history: key -> document, for every AddValue of a new
                  \* key that returned
  chains,         \* history: the overflow chains written by AddValue calls
                  \* that returned
  calls,          \* history: the number of AddValue calls made
  treeOp          \* history: the last B-tree call and its result

treeVars == <<tree, stored, chains, calls, treeOp>>

VARIABLES
  meta_,          \* DataAccessLayer::meta_
  disk,           \* neversql.db: what pages 0 and 1 hold
  manager,        \* DataManager: whether one is alive, its collection
                  \* index and its collections_
  managerOp       \* history: the last call on the database and its result

managerVars == <<meta_, disk, manager, managerOp>>

VARIABLES
  walOp,          \* history: the last call on the WriteAheadLog, the records
                  \* in the order of their calls, the open transaction
  docOp,          \* a document value, its encoding and what is read back
  readers         \* the threads that are inside PageCache::GetPage

VARIABLES
  frame,          \* one cached page byte by byte: data_ as it is now and
                  \* as it entered the cache, the UPDATE records of its
                  \* writes with their bytes, and the last write made
  fixed_stack,    \* a FixedStack<int, StackSize_v>: buffer_ and size_, and
                  \* the last call made on it
  store           \* the page number in the header that each frame of the
                  \* cache and each page of neversql.db holds, and the
                  \* pages that were initialized as B-tree pages

unitVars == <<frame, fixed_stack, store>>

otherVars == <<walOp, docOp, readers, unitVars>>

vars == <<dalVars, cacheVars, treeVars, managerVars, otherVars>>

notDalVars == <<cacheVars, treeVars, managerVars, otherVars>>

notCacheVars == <<dalVars, treeVars, managerVars, otherVars>>

notTreeVars == <<dalVars, cacheVars, managerVars, otherVars>>

notManagerVars == <<cacheVars, treeVars, otherVars>>

(***************************************************************************)
(* Bounds of the model.                                                    *)
(***************************************************************************)
MaxPageNumber == 2      \* the DAL model stops allocating past this page

NoPage == -1            \* std::nullopt of std::optional<page_number_t>

\* A local binding: the value v under the name F gives it.
With(v, F(_)) == F(v)

Range(s) == {s[i] : i \in DOMAIN s}

Contains(s, x) == \E i \in DOMAIN s : s[i] = x

NoDuplicates(s) == \A i, j \in DOMAIN s : s[i] = s[j] => i = j

Without(s, x) == SelectSeq(s, LAMBDA y : y # x)

(***************************************************************************)
(* FreeList                                                                *)
(***************************************************************************)
FreeListNew(starting_slots, can_allocate) ==
  [freed_pages_      |-> [i \in 1..starting_slots |-> i - 1],
   next_page_number_ |-> starting_slots,
   can_allocate_     |-> can_allocate,
   is_dirty_         |-> FALSE]

FreeListDefault ==
  [freed_pages_ |-> <<>>, next_page_number_ |-> 0,
   can_allocate_ |-> TRUE, is_dirty_ |-> FALSE]

\* A GetNextPage that takes the most recently freed page.
GetNextPageLifo(fl) ==
  IF fl.freed_pages_ # <<>>
  THEN [fl     |-> [fl EXCEPT !.is_dirty_ = TRUE,
                              !.freed_pages_ = SubSeq(@, 1, Len(@) - 1)],
        result |-> fl.freed_pages_[Len(fl.freed_pages_)]]
  ELSE IF ~fl.can_allocate_
  THEN [fl |-> [fl EXCEPT !.is_dirty_ = TRUE], result |-> NoPage]
  ELSE [fl     |-> [fl EXCEPT !.is_dirty_ = TRUE,
                              !.next_page_number_ = @ + 1],
        result |-> fl.next_page_number_]

GetNextPage(fl) ==
  IF fl.freed_pages_ # <<>>
  THEN [fl     |-> [fl EXCEPT !.is_dirty_ = TRUE,
                              !.freed_pages_ = Tail(@)],
        result |-> Head(fl.freed_pages_)]
  ELSE IF ~fl.can_allocate_
  THEN [fl |-> [fl EXCEPT !.is_dirty_ = TRUE], result |-> NoPage]
  ELSE [fl     |-> [fl EXCEPT !.is_dirty_ = TRUE,
                              !.next_page_number_ = @ + 1],
        result |-> fl.next_page_number_]

\* A ReleasePage without the membership test.
ReleasePageUnchecked(fl, page_number) ==
  IF ~(page_number < fl.next_page_number_)
  THEN [fl |-> fl, result |-> "RequireFailed"]
  ELSE [fl     |-> [fl EXCEPT !.is_dirty_ = TRUE,
                              !.freed_pages_ = Append(@, page_number)],
        result |-> "true"]

ReleasePage(fl, page_number) ==
  IF ~(page_number < fl.next_page_number_)
  THEN [fl |-> fl, result |-> "RequireFailed"]
  ELSE IF ~Contains(fl.freed_pages_, page_number)
  THEN [fl     |-> [fl EXCEPT !.is_dirty_ = TRUE,
                              !.freed_pages_ = Append(@, page_number)],
        result |-> "true"]
  ELSE [fl |-> [fl EXCEPT !.is_dirty_ = TRUE], result |-> "false"]

GetNumAllocatedPages(fl) == fl.next_page_number_

IsPageValid(fl, page_number) ==
  /\ page_number <= fl.next_page_number_
  /\ ~Contains(fl.freed_pages_, page_number)

Clean(fl) == [fl EXCEPT !.is_dirty_ = FALSE]

(***************************************************************************)
(* DataAccessLayer: page allocation                                        *)
(***************************************************************************)
\* createDB: page 0 for the meta, page 1 for the free list.
DalInit ==
  /\ free_list_ = [FreeListDefault EXCEPT !.next_page_number_ = 2,
                                          !.is_dirty_ = TRUE]
  /\ file_pages = 2
  /\ live = {0, 1}
  /\ released = <<>>
  /\ dalOp = [op |-> "createDB", arg |-> NoPage, result |-> NoPage,
              freed |-> <<>>, before |-> <<>>]

\* The allocation can go on while the model's page numbers last.
CanAllocate ==
  \/ free_list_.freed_pages_ # <<>>
  \/ free_list_.next_page_number_ <= MaxPageNumber

\* A getNewPage that resizes the file to page_size * page_number.
DalGetNewPageShort ==
  \E r \in {GetNextPage(free_list_)} :
  \E page_number \in {r.result} :
     /\ free_list_' = r.fl
     /\ file_pages' = IF page_number = GetNumAllocatedPages(r.fl) - 1
                      THEN page_number
                      ELSE file_pages
     /\ live' = live \cup {page_number}
     /\ released' = Without(released, page_number)
     /\ dalOp' = [op |-> "getNewPage", arg |-> NoPage,
                  result |-> page_number,
                  freed |-> free_list_.freed_pages_, before |-> released]

\* DataAccessLayer::getNewPage: its effect on the DAL's variables; the
\* page number handed out is dalOp'.result.
DalGetNewPage ==
  \E r \in {GetNextPage(free_list_)} :
  \E page_number \in {r.result} :
     /\ free_list_' = r.fl
     /\ file_pages' = IF page_number = GetNumAllocatedPages(r.fl) - 1
                      THEN page_number + 1
                      ELSE file_pages
     /\ live' = live \cup {page_number}
     /\ released' = Without(released, page_number)
     /\ dalOp' = [op |-> "getNewPage", arg |-> NoPage,
                  result |-> page_number,
                  freed |-> free_list_.freed_pages_, before |-> released]

getNewPage ==
  /\ CanAllocate
  /\ DalGetNewPage
  /\ UNCHANGED notDalVars

\* DataAccessLayer::releasePage: its effect on the DAL's variables.
DalReleasePage(page_number) ==
  \E r \in {ReleasePage(free_list_, page_number)} :
     /\ free_list_' = r.fl
     /\ live' = IF r.result = "true" THEN live \ {page_number} ELSE live
     /\ released' = IF r.result = "true"
                    THEN Append(released, page_number)
                    ELSE released
     /\ dalOp' = [op |-> "releasePage", arg |-> page_number,
                  result |-> r.result,
                  freed |-> free_list_.freed_pages_, before |-> released]
     /\ UNCHANGED file_pages

releasePage(page_number) ==
  /\ DalReleasePage(page_number)
  /\ UNCHANGED notDalVars

\* DataAccessLayer::updateFreeList: the list is written to its page.
updateFreeList ==
  /\ free_list_.is_dirty_
  /\ free_list_' = Clean(free_list_)
  /\ dalOp' = [op |-> "updateFreeList", arg |-> NoPage, result |-> NoPage,
               freed |-> free_list_.freed_pages_, before |-> released]
  /\ UNCHANGED <<file_pages, live, released, notDalVars>>

(***************************************************************************)
(* WriteAheadLog                                                           *)
(***************************************************************************)
WalBufferSize == 16384     \* buffer_(16 * 1024)

UpdateHeaderSize == 35     \* type 1, transaction 8, LSN 8, page 8, offset 2,
                           \* size 8

WalNew ==
  [next_sequence_number_         |-> 1,
   last_flushed_sequence_number_ |-> 0,
   buffer_                       |-> <<>>,
   buffer_usage_                 |-> 0,
   log_file_                     |-> <<>>]

\* What becomes of bytes that addToBuffer copied past the end of buffer_
\* (undefined): flushBuffer reads them back as written, or it does not.
OverflowModes == {"intact", "clobbered"}

\* A log record of `size` bytes; last is the offset in buffer_ just after it.
Record(type, transaction_id, lsn, page_number) ==
  [type |-> type, transaction |-> transaction_id, lsn |-> lsn,
   page |-> page_number, last |-> 0, torn |-> FALSE]

\* WriteAheadLog::addToBuffer for all the fields of one record: no test of
\* the room that is left.
addToBuffer(w, record, size) ==
  [w EXCEPT !.buffer_ = Append(@, [record EXCEPT
                                     !.last = w.buffer_usage_ + size]),
            !.buffer_usage_ = @ + size]

\* WriteAheadLog::flushBuffer: buffer_usage_ bytes from buffer_.data() go
\* to wal.log; a record that reaches past buffer_.size() is whole in the
\* file only in the mode "intact".
flushBuffer(w, mode) ==
  [w EXCEPT
     !.log_file_ = @ \o [i \in DOMAIN w.buffer_ |->
                           [w.buffer_[i] EXCEPT
                              !.torn = /\ mode = "clobbered"
                                       /\ w.buffer_[i].last > WalBufferSize]],
     !.buffer_ = <<>>,
     !.buffer_usage_ = 0]

BeginTransation(w, transaction_id) ==
  addToBuffer(w, Record("BEGIN", transaction_id, 0, NoPage), 9)

CommitTransation(w, transaction_id) ==
  addToBuffer(w, Record("COMMIT", transaction_id, 0, NoPage), 9)

\* WriteAheadLog::Update that gives every record the same sequence number.
UpdateSameLsn(w, transaction_id, page_number, size, mode) ==
  LET size_requirement == UpdateHeaderSize + size * 2
      w2 == IF /\ w.buffer_usage_ <= WalBufferSize
               /\ WalBufferSize - w.buffer_usage_ < size_requirement
            THEN flushBuffer(w, mode)
            ELSE w
  IN addToBuffer(w2, Record("UPDATE", transaction_id,
                            w.next_sequence_number_, page_number),
                 size_requirement)

\* WriteAheadLog::Update for data_old and data_new of `size` bytes each.
\* buffer_.size() - buffer_usage_ is unsigned: once buffer_usage_ is past
\* buffer_.size() it wraps to a huge value and nothing is flushed.
Update(w, transaction_id, page_number, size, mode) ==
  LET sequence_number == w.next_sequence_number_
      size_requirement == UpdateHeaderSize + size * 2
      w1 == [w EXCEPT !.next_sequence_number_ = @ + 1]
      w2 == IF /\ w1.buffer_usage_ <= WalBufferSize
               /\ WalBufferSize - w1.buffer_usage_ < size_requirement
            THEN flushBuffer(w1, mode)
            ELSE w1
  IN addToBuffer(w2, Record("UPDATE", transaction_id, sequence_number,
                            page_number),
                 size_requirement)

Flush(w, mode) ==
  [flushBuffer(w, mode) EXCEPT
     !.last_flushed_sequence_number_ = w.next_sequence_number_ - 1]

\* The largest LSN whose record is in wal.log (0: none).
DurableLsn(w) ==
  IF w.log_file_ = <<>> THEN 0 ELSE w.log_file_[Len(w.log_file_)].lsn

(***************************************************************************)
(* PageCache                                                               *)
(***************************************************************************)
CacheSize == 2             \* cache_size_ of the modelled cache

MaxHandles == 2            \* live RCPage objects at a time

MaxLsn == 1                \* UPDATE records written in a run

DefaultPageSize == 4096    \* 1 << page_size_power_

Slots == 0..(CacheSize - 1)

MapPut(m, k, v) == [x \in DOMAIN m \cup {k} |-> IF x = k THEN v ELSE m[x]]

MapErase(m, k) == [x \in DOMAIN m \ {k} |-> m[x]]

\* PageDescriptor after ReleaseDescriptor (and as value-initialised).
Descriptor0 ==
  [page_number |-> NoPage, usage_count |-> 0, valid |-> FALSE,
   dirty |-> FALSE, second_chance |-> FALSE]

PageCacheNew ==
  [page_descriptors_    |-> [s \in Slots |-> Descriptor0],
   page_number_to_slot_ |-> <<>>,
   cache_free_list_     |-> FreeListNew(CacheSize, FALSE),
   next_victim_         |-> 0]

SetDirty(c, slot) == [c EXCEPT !.page_descriptors_[slot].dirty = TRUE]

decrementUsage(c, slot) ==
  LET d == c.page_descriptors_[slot]
  IN IF d.valid /\ 0 < d.usage_count
     THEN [c EXCEPT !.page_descriptors_[slot].usage_count = @ - 1]
     ELSE c

\* PageCache::ReleasePage, called by ~RCPage.
PageCacheReleasePage(c, page_number) ==
  IF page_number \in DOMAIN c.page_number_to_slot_
  THEN [c |-> decrementUsage(c, c.page_number_to_slot_[page_number]),
        result |-> "ok"]
  ELSE [c |-> c, result |-> "Failed"]

\* written: the pages handed to flushPage (DataAccessLayer::WriteBackPage).
tryReleasePage(c, slot) ==
  With(c.page_descriptors_[slot], LAMBDA d :
    IF 0 < d.usage_count
    THEN [c |-> c, result |-> "false", written |-> <<>>]
    ELSE IF ~d.valid
    THEN [c |-> c, result |-> "true", written |-> <<>>]
    ELSE
      With(IF d.dirty THEN <<d.page_number>> ELSE <<>>, LAMBDA written :
      With(ReleasePage(c.cache_free_list_, slot), LAMBDA rel :
      With([c EXCEPT
              !.page_descriptors_[slot] = Descriptor0,
              !.page_number_to_slot_ = MapErase(@, d.page_number),
              !.cache_free_list_ = rel.fl], LAMBDA c2 :
        IF rel.result # "true"
        THEN [c |-> c2, result |-> "AssertFailed", written |-> written]
        ELSE IF Len(c2.cache_free_list_.freed_pages_)
                  # CacheSize - Cardinality(DOMAIN c2.page_number_to_slot_)
        THEN [c |-> c2, result |-> "AssertFailed", written |-> written]
        ELSE [c |-> c2, result |-> "true", written |-> written]))))

\* The clock sweep of evictNextVictim: the descriptors and the hand after it.
RECURSIVE ClockSweep(_, _, _)
ClockSweep(descriptors, hand, count) ==
  IF descriptors[hand].second_chance
  THEN LET cleared == [descriptors EXCEPT ![hand].second_chance = FALSE]
           next == (hand + 1) % CacheSize
       IN IF count + 1 = CacheSize
          THEN [page_descriptors_ |-> cleared, next_victim_ |-> next]
          ELSE ClockSweep(cleared, next, count + 1)
  ELSE [page_descriptors_ |-> descriptors, next_victim_ |-> hand]

evictNextVictim(c) ==
  With(ClockSweep(c.page_descriptors_, c.next_victim_, 0), LAMBDA swept :
  With(tryReleasePage([c EXCEPT
                         !.page_descriptors_ = swept.page_descriptors_,
                         !.next_victim_ = swept.next_victim_],
                      swept.next_victim_), LAMBDA r :
    IF r.result # "true"
    THEN [c |-> r.c, result |-> "CacheExhausted", slot |-> NoPage,
          written |-> r.written]
    ELSE [c |-> [r.c EXCEPT !.next_victim_ = (@ + 1) % CacheSize],
          result |-> "ok", slot |-> swept.next_victim_,
          written |-> r.written]))

\* evicted: the slot evictNextVictim released (NoPage: none).
getSlot(c) ==
  With(GetNextPage(c.cache_free_list_), LAMBDA g :
    IF g.result # NoPage
    THEN [c |-> [c EXCEPT !.cache_free_list_ = g.fl], result |-> "ok",
          slot |-> g.result, evicted |-> NoPage, written |-> <<>>]
    ELSE
      With(evictNextVictim([c EXCEPT !.cache_free_list_ = g.fl]), LAMBDA e :
        IF e.result # "ok"
        THEN [c |-> e.c, result |-> e.result, slot |-> NoPage,
              evicted |-> NoPage, written |-> e.written]
        ELSE
          With(GetNextPage(e.c.cache_free_list_), LAMBDA g2 :
          With([e.c EXCEPT !.cache_free_list_ = g2.fl], LAMBDA c2 :
            IF g2.result = NoPage \/ g2.result # e.slot
            THEN [c |-> c2, result |-> "AssertFailed", slot |-> NoPage,
                  evicted |-> e.slot, written |-> e.written]
            ELSE [c |-> c2, result |-> "ok", slot |-> e.slot,
                  evicted |-> e.slot, written |-> e.written]))))

getPageFromSlot(c, slot) ==
  IF ~c.page_descriptors_[slot].valid
  THEN [c |-> c, result |-> "RequireFailed"]
  ELSE [c |-> [c EXCEPT
                 !.page_descriptors_[slot].usage_count = (@ + 1) % 256,
                 !.page_descriptors_[slot].second_chance = TRUE],
        result |-> "ok"]

initializePage(c, page_slot, page_number) ==
  With([c EXCEPT
          !.page_number_to_slot_ = MapPut(@, page_number, page_slot)],
       LAMBDA c1 :
    IF Cardinality(DOMAIN c1.page_number_to_slot_) > CacheSize
    THEN [c |-> c1, result |-> "AssertFailed"]
    ELSE [c |-> [c1 EXCEPT
                   !.page_descriptors_[page_slot].valid = TRUE,
                   !.page_descriptors_[page_slot].page_number = page_number,
                   !.page_descriptors_[page_slot].usage_count = 0],
          result |-> "ok"])

\* PageCache::GetPage up to the handle it returns; num_allocated is the
\* DAL's count, which the safe read of a page not yet cached checks.
PageCacheGetPage(c, page_number, num_allocated) ==
  IF page_number \in DOMAIN c.page_number_to_slot_
  THEN
    With(c.page_number_to_slot_[page_number], LAMBDA slot :
    With(getPageFromSlot(c, slot), LAMBDA g :
    With(c.page_descriptors_[slot].page_number, LAMBDA loaded :
      IF g.result # "ok"
      THEN [c |-> c, result |-> g.result, slot |-> NoPage,
            evicted |-> NoPage, written |-> <<>>]
      ELSE IF loaded # page_number
      THEN [c |-> PageCacheReleasePage(g.c, loaded).c,
            result |-> "AssertFailed", slot |-> NoPage,
            evicted |-> NoPage, written |-> <<>>]
      ELSE [c |-> g.c, result |-> "ok", slot |-> slot,
            evicted |-> NoPage, written |-> <<>>])))
  ELSE
    With(getSlot(c), LAMBDA s :
      IF s.result # "ok"
      THEN [c |-> s.c, result |-> s.result, slot |-> NoPage,
            evicted |-> s.evicted, written |-> s.written]
      ELSE
        With(initializePage(s.c, s.slot, page_number), LAMBDA i :
          IF i.result # "ok"
          THEN [c |-> i.c, result |-> i.result, slot |-> NoPage,
                evicted |-> s.evicted, written |-> s.written]
          ELSE
            With(getPageFromSlot(i.c, s.slot), LAMBDA g :
              IF ~(page_number < num_allocated)
              THEN [c |-> PageCacheReleasePage(g.c, page_number).c,
                    result |-> "RequireFailed", slot |-> NoPage,
                    evicted |-> s.evicted, written |-> s.written]
              ELSE [c |-> g.c, result |-> "ok", slot |-> s.slot,
                    evicted |-> s.evicted, written |-> s.written])))

\* ~PageCache: tryReleasePage for every slot, an exception caught per slot.
RECURSIVE ReleaseAll(_, _, _)
ReleaseAll(c, i, written) ==
  IF i = CacheSize
  THEN [c |-> c, written |-> written]
  ELSE With(tryReleasePage(c, i), LAMBDA r :
         ReleaseAll(r.c, i + 1, written \o r.written))

PageNumbers == 0..(MaxPageNumber + 1)

WriteSizes == {1, DefaultPageSize}

\* The writes of a Transaction are logged (omit_log = false).
OmitLog == {FALSE}

\* What a call that has to evict a frame saw before it ran.
NoSnapshot == [page_descriptors_ |-> <<>>, next_victim_ |-> NoPage]

Snapshot ==
  IF page_cache.cache_free_list_.freed_pages_ = <<>>
  THEN [page_descriptors_ |-> page_cache.page_descriptors_,
        next_victim_      |-> page_cache.next_victim_]
  ELSE NoSnapshot

\* The write-backs of a call: the page, the LSN of its last UPDATE record
\* and the largest LSN in wal.log when the page went to the data file.
WriteBacks(written) ==
  [k \in DOMAIN written |->
     [page |-> written[k], lsn |-> last_update[written[k]],
      durable |-> DurableLsn(wal_)]]

CacheInit ==
  /\ page_cache = PageCacheNew
  /\ wal_ = WalNew
  /\ handles = EmptyBag
  /\ last_update = [p \in PageNumbers |-> 0]
  /\ closed = FALSE
  /\ cacheOp = [op |-> "PageCache", page |-> NoPage, result |-> "ok",
                slot |-> NoPage, evicted |-> NoPage, written |-> <<>>,
                before |-> NoSnapshot]

GetPageAs(op, page_number) ==
  \E r \in {PageCacheGetPage(page_cache, page_number,
                             GetNumAllocatedPages(free_list_))} :
     /\ ~closed
     /\ BagCardinality(handles) < MaxHandles
     /\ page_cache' = r.c
     /\ handles' = IF r.result = "ok"
                   THEN handles (+) SetToBag({<<page_number, r.slot>>})
                   ELSE handles
     /\ cacheOp' = [op |-> op, page |-> page_number, result |-> r.result,
                    slot |-> r.slot, evicted |-> r.evicted,
                    written |-> WriteBacks(r.written),
                    before |-> IF page_number
                                    \in DOMAIN page_cache.page_number_to_slot_
                               THEN NoSnapshot
                               ELSE Snapshot]
     /\ UNCHANGED <<wal_, last_update, closed, notCacheVars>>

GetPage(page_number) ==
  /\ page_number <= GetNumAllocatedPages(free_list_)
  /\ GetPageAs("GetPage", page_number)

\* RCPage::NewHandle on a live handle.
NewHandle(h) == GetPageAs("NewHandle", h[1])

GetNewPage ==
  \E s \in {getSlot(page_cache)},
     page_number \in {GetNextPage(free_list_).result} :
  \E i \in {initializePage(s.c, s.slot, page_number)} :
     /\ ~closed
     /\ BagCardinality(handles) < MaxHandles
     /\ CanAllocate
     /\ IF s.result # "ok"
        THEN /\ page_cache' = s.c
             /\ handles' = handles
             /\ cacheOp' = [op |-> "GetNewPage", page |-> NoPage,
                            result |-> s.result, slot |-> NoPage,
                            evicted |-> s.evicted,
                            written |-> WriteBacks(s.written),
                            before |-> Snapshot]
             /\ UNCHANGED notCacheVars
        ELSE /\ DalGetNewPage
             /\ UNCHANGED <<treeVars, managerVars, otherVars>>
             /\ page_cache' = i.c
             /\ handles' = IF i.result = "ok"
                           THEN handles (+) SetToBag({<<page_number, s.slot>>})
                           ELSE handles
             /\ cacheOp' = [op |-> "GetNewPage", page |-> page_number,
                            result |-> i.result, slot |-> s.slot,
                            evicted |-> s.evicted,
                            written |-> WriteBacks(s.written),
                            before |-> Snapshot]
     /\ UNCHANGED <<wal_, last_update, closed>>

\* ~RCPage of the handle h = <<page_number_, descriptor_index_>>.
DropHandle(h) ==
  \E r \in {PageCacheReleasePage(page_cache, h[1])} :
     /\ ~closed
     /\ page_cache' = r.c
     /\ handles' = handles (-) SetToBag({h})
     /\ cacheOp' = [op |-> "DropHandle", page |-> h[1], result |-> r.result,
                    slot |-> h[2], evicted |-> NoPage, written |-> <<>>,
                    before |-> NoSnapshot]
     /\ UNCHANGED <<wal_, last_update, closed, notCacheVars>>

\* RCPage::writeToPage of `size` bytes through the handle h.
WriteToPage(h, size, omit_log) ==
  /\ ~closed
  /\ omit_log \/ wal_.next_sequence_number_ <= MaxLsn
  /\ page_cache' = SetDirty(page_cache, h[2])
  /\ \E mode \in OverflowModes :
       wal_' = IF omit_log THEN wal_ ELSE Update(wal_, 0, h[1], size, mode)
  /\ last_update' = IF omit_log
                    THEN last_update
                    ELSE [last_update EXCEPT
                            ![h[1]] = wal_.next_sequence_number_]
  /\ cacheOp' = [op |-> "WriteToPage", page |-> h[1], result |-> "ok",
                 slot |-> h[2], evicted |-> NoPage, written |-> <<>>,
                 before |-> NoSnapshot]
  /\ UNCHANGED <<handles, closed, notCacheVars>>

\* ~PageCache, then ~WriteAheadLog of its member wal_.
Shutdown ==
  \E r \in {ReleaseAll(page_cache, 0, <<>>)} :
     /\ ~closed
     /\ handles = EmptyBag
     /\ page_cache' = r.c
     /\ \E mode \in OverflowModes : wal_' = Flush(wal_, mode)
     /\ closed' = TRUE
     /\ cacheOp' = [op |-> "Shutdown", page |-> NoPage, result |-> "ok",
                    slot |-> NoPage, evicted |-> NoPage,
                    written |-> WriteBacks(r.written),
                    before |-> NoSnapshot]
     /\ UNCHANGED <<handles, last_update, notCacheVars>>

(***************************************************************************)
(* B-tree pages: BTreePageHeader and BTreeNodeMap.  A page is a record of  *)
(* its header fields and its live cells in the order of its pointer        *)
(* array; free_begin is PointersStart + 2 * (number of pointers).  A cell  *)
(* is [offset, flags, key, entry]; a key is its sequence of bytes.  The    *)
(* page cache is taken to hand out every page that is asked for.           *)
(***************************************************************************)
PageSize == 512              \* Meta::page_size_ for page_size_power_ = 9

PointersStart == 31          \* sizeof(BTreePageHeader::Header)

RootPage == 3                \* the root of the first collection of a database

max_entry_size_ == 256

min_space_for_entry_ == 128

max_entries_per_page_ == 10000

min_overflow_entry_capacity_ == 16

MinimumEntrySize == 16       \* EntryCreator::GetMinimumEntrySize

\* SpanValue of a primary_key_t below 2^16: its eight bytes, low byte first.
SpanValue(k) ==
  [i \in 1..8 |-> IF i = 1 THEN k % 256
                  ELSE IF i = 2 THEN (k \div 256) % 256 ELSE 0]

Min(a, b) == IF a < b THEN a ELSE b

\* CompareTrivial<primary_key_t>: lhs < rhs as 64 bit numbers.
CompareTrivial(lhs, rhs) ==
  \E i \in 1..8 : lhs[i] < rhs[i] /\ \A j \in (i + 1)..8 : lhs[j] = rhs[j]

\* CompareString: std::ranges::lexicographical_compare(lhs, rhs).
CompareString(lhs, rhs) ==
  \/ \E i \in 1..Min(Len(lhs), Len(rhs)) :
       lhs[i] < rhs[i] /\ \A j \in 1..(i - 1) : lhs[j] = rhs[j]
  \/ Len(lhs) < Len(rhs) /\ \A j \in 1..Len(lhs) : lhs[j] = rhs[j]

\* BTreeManager::cmp_, which initialize() sets from the key type of the
\* tree and newNodePage and loadNodePage hand to every node.
cmp_(lhs, rhs) ==
  IF tree.key_type_ = "String"
  THEN CompareString(lhs, rhs) ELSE CompareTrivial(lhs, rhs)

lte(key1, key2) == cmp_(key1, key2) \/ key1 = key2

InitializePage(page_number, type, reserved_size) ==
  [flags |-> type, free_end |-> PageSize - reserved_size,
   reserved_start |-> PageSize - reserved_size,
   page_number |-> page_number, additional_data |-> 0, cells |-> <<>>]

InitializeOverflowPage(page_number) ==
  [flags |-> 8, free_end |-> PageSize, reserved_start |-> PageSize,
   page_number |-> page_number, additional_data |-> 0, cells |-> <<>>]

IsPointersPage(n) == n.flags % 2 = 1

IsRootPage(n) == (n.flags \div 2) % 2 = 1

AreKeySizesSpecified(n) == (n.flags \div 4) % 2 = 1

IsOverflowPage(n) == (n.flags \div 8) % 2 = 1

GetPageType(n) == n.flags % 4

GetNumPointers(n) == Len(n.cells)

GetFreeBegin(n) == PointersStart + 2 * Len(n.cells)

GetDefragmentedFreeSpace(n) == n.free_end - GetFreeBegin(n)

\* EntryFlags: IsActive 128, KeySizeIsSerialized 64, NoteFlag 2,
\* IsSinglePageEntry 1.
GetIsActive(flags) == (flags \div 128) % 2 = 1

GetKeySizeIsSerialized(flags) == (flags \div 64) % 2 = 1

IsNoteFlagTrue(flags) == (flags \div 2) % 2 = 1

GetIsSinglePageEntry(flags) == flags % 2 = 1

GetIsEntrySizeSerialized(flags) ==
  IsNoteFlagTrue(flags) /\ GetIsSinglePageEntry(flags)

(***************************************************************************)
(* The entry of a cell is one of                                           *)
(*   [kind |-> "single", doc]          entry_size and a whole document     *)
(*   [kind |-> "overflow", overflow_key, page_number]   overflow header    *)
(*   [kind |-> "chunk", next_page, payload, from, len]   len bytes of a    *)
(*                                      payload, from byte from on         *)
(*   [kind |-> "pointer", page_number]  the child of a pointers cell       *)
(* A document is [id, size]: size bytes that spell document id.  Bytes     *)
(* that no caller wrote are the document with id 0.                        *)
(***************************************************************************)
\* The size of the data span getCell gives for the entry.
DataSize(entry) ==
  CASE entry.kind = "single" -> entry.doc.size
    [] entry.kind = "overflow" -> 16
    [] entry.kind = "chunk" -> 8 + entry.len
    [] entry.kind = "pointer" -> 8

\* The bytes the entry takes in its cell: a single page entry and a chunk
\* have a two byte entry_size in front.
EntryBytes(entry) ==
  IF entry.kind \in {"single", "chunk"}
  THEN 2 + DataSize(entry) ELSE DataSize(entry)

\* The bytes of a cell on its page: flags, key_size?, key, entry.
CellBytes(cell) ==
  1 + (IF GetKeySizeIsSerialized(cell.flags) THEN 2 ELSE 0) + Len(cell.key)
    + EntryBytes(cell.entry)

\* DataNodeCell::GetCellSize and PointersNodeCell::GetCellSize: what the
\* code takes the size of the cell to be.  A pointers cell is built by
\* getCell with flags 0.
GetCellSize(n, cell) ==
  IF IsPointersPage(n)
  THEN 1 + Len(cell.key) + 8
  ELSE 1 + (IF GetKeySizeIsSerialized(cell.flags) THEN 2 ELSE 0)
         + Len(cell.key)
         + (IF GetIsEntrySizeSerialized(cell.flags) THEN 4 ELSE 0)
         + DataSize(cell.entry)

CellHeaderSpace(n, key) ==
  1 + Len(key) + (IF AreKeySizesSpecified(n) THEN 2 ELSE 0)

CalculateSpaceRequirements(n, key) ==
  [pointer_space |-> 2,
   cell_header_space |-> CellHeaderSpace(n, key),
   max_entry_space |->
     IF 2 + CellHeaderSpace(n, key) < GetDefragmentedFreeSpace(n)
     THEN GetDefragmentedFreeSpace(n) - (2 + CellHeaderSpace(n, key))
     ELSE 0]

\* BTreeNodeMap::getKeyForCell: the header of the page says how the key
\* is read.  Where key sizes are specified the key follows its size, as
\* writeKey wrote it; elsewhere the eight bytes behind the flags are the
\* key, whatever its length (the keys of the model have eight bytes or
\* more, so the eight bytes are bytes of the key).
getKeyForCell(n, cell) ==
  IF AreKeySizesSpecified(n) THEN cell.key ELSE SubSeq(cell.key, 1, 8)

\* The index of the first cell whose key is not less than key, or the
\* number of pointers when there is none (std::nullopt).
getCellLowerBoundByPK(n, key) ==
  CHOOSE i \in 0..Len(n.cells) :
    /\ i < Len(n.cells) => ~cmp_(getKeyForCell(n, n.cells[i + 1]), key)
    /\ \A j \in 1..i : cmp_(getKeyForCell(n, n.cells[j]), key)

GetLargestKey(n) == getKeyForCell(n, n.cells[Len(n.cells)])

(***************************************************************************)
(* BTreeManager: t is [pages, next_page, root_page_, key_type_,            *)
(* current_overflow_page_number_, next_overflow_entry_number_].  pages     *)
(* maps a page number to its page; next_page is the page the data access   *)
(* layer hands out next (the file only grows while the tree is filled).    *)
(* An operation that can throw gives its result r as "RequireFailed" or    *)
(* "AssertFailed", with the pages as they were when it threw.              *)
(***************************************************************************)
OverflowPage == 4            \* BTreePageType::OverflowPage

\* A newNodePage that leaves a page of the file unused behind the page it
\* hands out.
newNodePageSkipping(t, type, reserved_space) ==
  [t |-> [t EXCEPT
            !.pages = MapPut(@, t.next_page,
                        IF type = OverflowPage
                        THEN InitializeOverflowPage(t.next_page)
                        ELSE InitializePage(t.next_page, type,
                                            reserved_space)),
            !.next_page = @ + 2],
   page_number |-> t.next_page]

newNodePage(t, type, reserved_space) ==
  [t |-> [t EXCEPT
            !.pages = MapPut(@, t.next_page,
                        IF type = OverflowPage
                        THEN InitializeOverflowPage(t.next_page)
                        ELSE InitializePage(t.next_page, type,
                                            reserved_space)),
            !.next_page = @ + 1],
   page_number |-> t.next_page]

\* NOSQL_ASSERTs of loadNodePage; the magic number of a page that
\* newNodePage made is always right.
loadNodePage(t, page_number) ==
  IF page_number \notin DOMAIN t.pages \/ page_number = 0
  THEN "AssertFailed"
  ELSE IF /\ IsPointersPage(t.pages[page_number])
          /\ t.pages[page_number].additional_data = 0
  THEN "AssertFailed"
  ELSE "ok"

getNextOverflowPage(t) ==
  With(newNodePage(t, OverflowPage, 0), LAMBDA g :
    [t |-> [g.t EXCEPT !.current_overflow_page_number_ = g.page_number],
     page_number |-> g.page_number])

getCurrentOverflowPage(t) ==
  IF t.current_overflow_page_number_ = 0
  THEN getNextOverflowPage(t)
  ELSE [t |-> t, page_number |-> t.current_overflow_page_number_]

getNextOverflowEntryNumber(t) ==
  [t |-> [t EXCEPT !.next_overflow_entry_number_ = @ + 1],
   key |-> t.next_overflow_entry_number_]

(***************************************************************************)
(* EntryCreator: c is [serialize_size_, payload, overflow_page_needed_,    *)
(* next_overflow_entry_size_, next_overflow_page_, sent, copier, flags_,   *)
(* header].  payload is what its serializer spells: a document, a page     *)
(* number (SpanPayloadSerializer of a child) or the data of a cell being   *)
(* copied; sent counts the bytes GetNextByte has given; header is the      *)
(* overflow header the creator wrote, for the history variables.           *)
(***************************************************************************)
NoHeader == [overflow_key |-> -1, page_number |-> 0]

EntryCreatorNew(payload, serialize_size) ==
  [serialize_size_ |-> serialize_size, payload |-> payload,
   overflow_page_needed_ |-> FALSE, next_overflow_entry_size_ |-> 0,
   next_overflow_page_ |-> 0, sent |-> 0, copier |-> FALSE, flags_ |-> 0,
   header |-> NoHeader]

\* MakeCreator<DocumentPayloadSerializer>
MakeCreator(doc) == EntryCreatorNew([kind |-> "doc", doc |-> doc], TRUE)

\* MakeSizelessCreator<SpanPayloadSerializer>(SpanValue(page_number))
MakeSizelessCreator(page_number) ==
  EntryCreatorNew([kind |-> "page", page_number |-> page_number], FALSE)

EntryCopier(flags, entry) ==
  [EntryCreatorNew([kind |-> "entry", entry |-> entry],
                   GetIsEntrySizeSerialized(flags))
     EXCEPT !.copier = TRUE, !.flags_ = flags]

GetRequiredSize(payload) ==
  CASE payload.kind = "doc" -> payload.doc.size
    [] payload.kind = "page" -> 8
    [] payload.kind = "entry" -> DataSize(payload.entry)

GetNeedsOverflow(c) ==
  c.overflow_page_needed_ /\ c.next_overflow_entry_size_ = 0

\* static_cast<page_size_t>
PageSizeT(x) == x % 65536

GetRequestedSize(c, maximum_entry_size) ==
  IF c.next_overflow_entry_size_ # 0
  THEN [c |-> c, r |-> "ok",
        size |-> PageSizeT(c.next_overflow_entry_size_ + 8 + 2)]
  ELSE IF ~(MinimumEntrySize <= maximum_entry_size)
  THEN [c |-> c, r |-> "RequireFailed", size |-> 0]
  ELSE IF maximum_entry_size
            < PageSizeT((IF c.serialize_size_ THEN 2 ELSE 0)
                        + GetRequiredSize(c.payload))
  THEN [c |-> [c EXCEPT !.overflow_page_needed_ = TRUE], r |-> "ok",
        size |-> 16]
  ELSE [c |-> c, r |-> "ok",
        size |-> PageSizeT((IF c.serialize_size_ THEN 2 ELSE 0)
                           + GetRequiredSize(c.payload))]

\* EntryCreator::GenerateFlags and its override in EntryCopier.
GenerateFlags(c) ==
  IF c.copier THEN c.flags_
  ELSE 128
       + (IF c.serialize_size_ \/ c.overflow_page_needed_ THEN 2 ELSE 0)
       + (IF c.overflow_page_needed_ /\ c.next_overflow_entry_size_ = 0
          THEN 0 ELSE 1)

\* flags | bit, for a bit that is a power of two.
BitOr(flags, bit) ==
  IF (flags \div bit) % 2 = 1 THEN flags ELSE flags + bit

\* BTreeManager::writeFlags: the byte it writes.
writeFlags(n, c) ==
  IF AreKeySizesSpecified(n)
  THEN BitOr(BitOr(GenerateFlags(c), 128), 64)
  ELSE BitOr(GenerateFlags(c), 128)

\* createSinglePageEntry: entry_size, if serialized, and then every byte
\* the payload still has.
createSinglePageEntry(c) ==
  [c |-> [c EXCEPT !.sent = GetRequiredSize(c.payload)],
   entry |-> CASE c.payload.kind = "doc" ->
                    [kind |-> "single",
                     doc |-> IF c.sent = 0 THEN c.payload.doc
                             ELSE [id |-> 0, size |-> c.payload.doc.size]]
               [] c.payload.kind = "page" ->
                    [kind |-> "pointer",
                     page_number |-> c.payload.page_number]
               [] c.payload.kind = "entry" -> c.payload.entry,
   written |-> (IF c.serialize_size_ THEN 2 ELSE 0)
               + (GetRequiredSize(c.payload) - c.sent)]

\* A createOverflowDataEntry that links no next page.
createOverflowDataEntryUnlinked(c) ==
  [c |-> [c EXCEPT !.sent = @ + c.next_overflow_entry_size_],
   entry |-> [kind |-> "chunk", next_page |-> 0,
              payload |-> c.payload, from |-> c.sent,
              len |-> c.next_overflow_entry_size_],
   written |-> 2 + 8 + c.next_overflow_entry_size_]

\* createOverflowDataEntry: entry_size, next page and the next
\* next_overflow_entry_size_ bytes of the payload.
createOverflowDataEntry(c) ==
  [c |-> [c EXCEPT !.sent = @ + c.next_overflow_entry_size_],
   entry |-> [kind |-> "chunk", next_page |-> c.next_overflow_page_,
              payload |-> c.payload, from |-> c.sent,
              len |-> c.next_overflow_entry_size_],
   written |-> 2 + 8 + c.next_overflow_entry_size_]

\* BTreeNodeMap::getCell reads a cell by the flags of the cell, not by
\* the header of the page.  A cell that an EntryCopier brought from a page
\* with key sizes to a page without says that its key size is serialized:
\* the first two bytes of its key are taken for the size, and the entry
\* is looked for behind that many bytes.  Page::getPtr requires the
\* offset, a page_size_t, to be on the page.
getCellThrows(n, cell) ==
  /\ GetKeySizeIsSerialized(cell.flags)
  /\ ~AreKeySizesSpecified(n)
  /\ ~(PageSizeT(cell.offset + 3 + cell.key[1] + 256 * cell.key[2])
        < PageSize)

\* The size of the key of the cell that getCell gives.
getCellKeySize(n, cell) ==
  IF ~GetKeySizeIsSerialized(cell.flags) THEN 8
  ELSE IF AreKeySizesSpecified(n) THEN Len(cell.key)
  ELSE cell.key[1] + 256 * cell.key[2]

\* The bytes of that key, as far as they are bytes of the key that was
\* written.
getCellKey(n, cell) ==
  IF ~GetKeySizeIsSerialized(cell.flags) THEN SubSeq(cell.key, 1, 8)
  ELSE IF AreKeySizesSpecified(n) THEN cell.key
  ELSE SubSeq(cell.key, 3, Min(Len(cell.key), 2 + getCellKeySize(n, cell)))

\* isUniqueKey is noexcept: what getCell throws inside it ends the
\* process (std::terminate).
isUniqueKeyTerminates(n, key) ==
  /\ getCellLowerBoundByPK(n, key) < Len(n.cells)
  /\ getCellThrows(n, n.cells[getCellLowerBoundByPK(n, key) + 1])

isUniqueKey(n, key) ==
  ~(/\ getCellLowerBoundByPK(n, key) < Len(n.cells)
    /\ getCellKeySize(n, n.cells[getCellLowerBoundByPK(n, key) + 1])
         = Len(key)
    /\ getCellKey(n, n.cells[getCellLowerBoundByPK(n, key) + 1]) = key)

\* A sortKeys that leaves the new pointer where it was appended.
sortKeysAppended(n, cell) == Append(n.cells, cell)

\* BTreeNodeMap::sortKeys after the pointer of cell was appended: the
\* cell goes behind the cells whose keys are not greater.
sortKeys(n, cell) ==
  With(Cardinality({i \in DOMAIN n.cells :
                      ~cmp_(getKeyForCell(n, cell),
                            getKeyForCell(n, n.cells[i]))}),
       LAMBDA p : SubSeq(n.cells, 1, p) \o <<cell>>
                  \o SubSeq(n.cells, p + 1, Len(n.cells)))

\* The end of addElementToNode with the cell counted above free_end.
commitCellAbove(n, cell, cell_space) ==
  [n EXCEPT !.free_end = @ + cell_space,
            !.cells = IF n.cells # <<>> /\ cmp_(cell.key, GetLargestKey(n))
                      THEN sortKeys(n, cell)
                      ELSE Append(n.cells, cell)]

\* The end of addElementToNode: the cell is written, now the header and
\* the pointers say so.
commitCell(n, cell, cell_space) ==
  [n EXCEPT !.free_end = @ - cell_space,
            !.cells = IF n.cells # <<>> /\ cmp_(cell.key, GetLargestKey(n))
                      THEN sortKeys(n, cell)
                      ELSE Append(n.cells, cell)]

OverflowHeaderSize == 12     \* header_size of writeOverflowData

RECURSIVE load_next_overflow_page(_, _, _)
RECURSIVE writeOverflowLoop(_, _, _, _, _)
RECURSIVE addElementToNode(_, _, _, _, _)

\* The lambda load_next_overflow_page of loadOverflowPage and of
\* writeOverflowData: new overflow pages until one has more than need
\* bytes for an entry.
load_next_overflow_page(t, key, need) ==
  With(getNextOverflowPage(t), LAMBDA g :
    IF need < CalculateSpaceRequirements(g.t.pages[g.page_number],
                                         key).max_entry_space
    THEN g
    ELSE load_next_overflow_page(g.t, key, need))

loadOverflowPage(t, key) ==
  With(getCurrentOverflowPage(t), LAMBDA g :
    IF CalculateSpaceRequirements(g.t.pages[g.page_number],
                                  key).max_entry_space
         < OverflowHeaderSize
    THEN load_next_overflow_page(g.t, key,
           OverflowHeaderSize + min_overflow_entry_capacity_)
    ELSE g)

\* The bytes of the payload that writeOverflowData has not yet counted as
\* serialized, and the size of the next chunk for a page with
\* max_entry_space bytes for an entry.
Remaining(c, serialized) == GetRequiredSize(c.payload) - serialized

ChunkSize(max_entry_space, remaining) ==
  Min(PageSizeT(max_entry_space - OverflowHeaderSize), PageSizeT(remaining))

\* The while loop of writeOverflowData; overflow_page is the page the
\* next chunk goes to.
writeOverflowLoop(t, c, key, overflow_page, serialized) ==
  IF ~(c.sent < GetRequiredSize(c.payload))
  THEN [t |-> t, c |-> c, r |-> "ok"]
  ELSE
    With(CalculateSpaceRequirements(t.pages[overflow_page],
                                    key).max_entry_space, LAMBDA space :
      IF space - OverflowHeaderSize < Remaining(c, serialized)
      THEN
        With(load_next_overflow_page(t, key,
               OverflowHeaderSize
                 + Min(min_overflow_entry_capacity_,
                       PageSizeT(Remaining(c, serialized)))), LAMBDA g :
          With(addElementToNode(g.t, overflow_page, key,
                 [c EXCEPT !.next_overflow_entry_size_ =
                             ChunkSize(space, Remaining(c, serialized)),
                           !.next_overflow_page_ = g.page_number],
                 TRUE), LAMBDA a :
            IF a.r \in {"true", "false"}
            THEN writeOverflowLoop(a.t, a.c, key, g.page_number,
                   serialized + ChunkSize(space, Remaining(c, serialized)))
            ELSE a))
      ELSE
        With(addElementToNode(t, overflow_page, key,
               [c EXCEPT !.next_overflow_entry_size_ =
                           ChunkSize(space, Remaining(c, serialized)),
                         !.next_overflow_page_ = 0],
               TRUE), LAMBDA a :
          IF a.r \in {"true", "false"}
          THEN writeOverflowLoop(a.t, a.c, key, overflow_page,
                 serialized + ChunkSize(space, Remaining(c, serialized)))
          ELSE a))

writeOverflowData(t, c, key, overflow_page_number) ==
  IF CalculateSpaceRequirements(t.pages[overflow_page_number],
                                key).max_entry_space < OverflowHeaderSize
  THEN With(load_next_overflow_page(t, key,
              OverflowHeaderSize
                + Min(min_overflow_entry_capacity_,
                      PageSizeT(GetRequiredSize(c.payload)))), LAMBDA g :
         writeOverflowLoop(g.t, c, key, g.page_number, 0))
  ELSE writeOverflowLoop(t, c, key, overflow_page_number, 0)

createOverflowEntry(t, c) ==
  With(getNextOverflowEntryNumber(t), LAMBDA k :
    With(loadOverflowPage(k.t, SpanValue(k.key)), LAMBDA p :
      With(writeOverflowData(p.t, c, SpanValue(k.key), p.page_number),
           LAMBDA w :
        [t |-> w.t,
         c |-> [w.c EXCEPT !.header = [overflow_key |-> k.key,
                                       page_number |-> p.page_number]],
         entry |-> [kind |-> "overflow", overflow_key |-> k.key,
                    page_number |-> p.page_number],
         written |-> 16,
         r |-> w.r])))

\* EntryCreator::Create: the entry it writes and how many bytes that is.
Create(t, c) ==
  IF c.next_overflow_entry_size_ # 0
  THEN [t |-> t, r |-> "ok"] @@ createOverflowDataEntry(c)
  ELSE IF c.overflow_page_needed_
  THEN createOverflowEntry(t, c)
  ELSE [t |-> t, r |-> "ok"] @@ createSinglePageEntry(c)

\* The most an entry may take on page n next to a cell with this key:
\* maximum_entry_size of addElementToNode.
MaximumEntrySize(n, key) ==
  Min(IF IsOverflowPage(n) THEN 65535 ELSE max_entry_size_,
      CalculateSpaceRequirements(n, key).max_entry_space)

\* BTreeManager::addElementToNode(node_map, data, unique_keys) for the
\* page numbered page_number, data.key = key and *data.entry_creator = c.
\* r is "true" or "false" when it returns.
addElementToNode(t, page_number, key, c, unique_keys) ==
  IF unique_keys /\ isUniqueKeyTerminates(t.pages[page_number], key)
  THEN [t |-> t, c |-> c, r |-> "Terminated"]
  ELSE IF unique_keys /\ ~isUniqueKey(t.pages[page_number], key)
  THEN [t |-> t, c |-> c, r |-> "false"]
  ELSE
    With(GetRequestedSize(c, MaximumEntrySize(t.pages[page_number], key)),
         LAMBDA q :
      IF q.r # "ok"
      THEN [t |-> t, c |-> q.c, r |-> q.r]
      ELSE IF GetDefragmentedFreeSpace(t.pages[page_number])
                < 2 + CellHeaderSpace(t.pages[page_number], key) + q.size
      THEN [t |-> t, c |-> q.c, r |-> "false"]
      ELSE
        With(Create(t, q.c), LAMBDA e :
          IF e.r # "ok"
          THEN [t |-> e.t, c |-> e.c, r |-> e.r]
          ELSE IF e.written # q.size
          THEN [t |-> e.t, c |-> e.c, r |-> "AssertFailed"]
          ELSE
            [t |-> [e.t EXCEPT !.pages[page_number] =
                      commitCell(@,
                        [offset |-> t.pages[page_number].free_end
                           - (CellHeaderSpace(t.pages[page_number], key)
                              + q.size),
                         flags |-> writeFlags(t.pages[page_number], q.c),
                         key |-> key,
                         entry |-> e.entry],
                        CellHeaderSpace(t.pages[page_number], key)
                          + q.size)],
             c |-> e.c,
             r |-> "true"]))

(***************************************************************************)
(* Reading: search, retrieve, ReadEntry, EntryToDocument, the iterator.    *)
(***************************************************************************)
\* BTreeNodeMap::searchForNextPageInPointersPage, for a pointers page n.
searchForNextPageInPointersPage(n, key) ==
  IF Len(n.cells) = 0 \/ cmp_(n.cells[Len(n.cells)].key, key)
  THEN [r |-> IF n.additional_data # 0 THEN "ok" ELSE "AssertFailed",
        page_number |-> n.additional_data,
        index |-> Len(n.cells)]
  ELSE [r |-> "ok",
        page_number |->
          n.cells[getCellLowerBoundByPK(n, key) + 1].entry.page_number,
        index |-> getCellLowerBoundByPK(n, key)]

RECURSIVE searchFrom(_, _, _, _)

\* The for loop of BTreeManager::search, about to load page_number.
searchFrom(t, key, page_number, path) ==
  IF loadNodePage(t, page_number) # "ok"
  THEN [r |-> "AssertFailed", path |-> path, node |-> page_number]
  ELSE IF ~IsPointersPage(t.pages[page_number])
  THEN [r |-> "ok",
        path |-> Append(path,
                   <<page_number,
                     getCellLowerBoundByPK(t.pages[page_number], key)>>),
        node |-> page_number]
  ELSE
    With(searchForNextPageInPointersPage(t.pages[page_number], key),
         LAMBDA s :
      IF s.r # "ok"
      THEN [r |-> s.r, path |-> path, node |-> page_number]
      ELSE IF s.page_number = page_number
      THEN [r |-> "RequireFailed", path |-> path, node |-> page_number]
      ELSE searchFrom(t, key, s.page_number,
                      Append(path, <<page_number, s.index>>)))

\* SearchResult: path is the stack from the root down, node the leaf;
\* IsFound() holds of every result that search returns.
search(t, key) == searchFrom(t, key, t.root_page_, <<>>)

\* SearchResult::IsFound: node.has_value(); no page has number 0.
IsFound(s) == s.node # 0

RECURSIVE OverflowEntryRead(_, _, _, _, _)

\* OverflowEntry: setup() on page_number, GetData(), and Advance() while
\* there is a next page.  pieces are the chunks read, pages the pages they
\* were on; a chain that comes back to a page is never read to its end.
OverflowEntryRead(t, overflow_key, page_number, pieces, pages) ==
  IF Contains(pages, page_number)
  THEN [r |-> "Cycle", pieces |-> pieces, pages |-> pages]
  ELSE IF loadNodePage(t, page_number) # "ok"
  THEN [r |-> "AssertFailed", pieces |-> pieces, pages |-> pages]
  ELSE
    With(t.pages[page_number], LAMBDA n :
      With(getCellLowerBoundByPK(n, SpanValue(overflow_key)), LAMBDA i :
        IF \/ IsPointersPage(n)
           \/ ~(i < Len(n.cells))
           \/ n.cells[i + 1].key # SpanValue(overflow_key)
           \/ n.cells[i + 1].entry.kind # "chunk"
        THEN [r |-> "AssertFailed", pieces |-> pieces, pages |-> pages]
        ELSE IF n.cells[i + 1].entry.next_page = 0
        THEN [r |-> "ok",
              pieces |-> Append(pieces, n.cells[i + 1].entry),
              pages |-> Append(pages, page_number)]
        ELSE OverflowEntryRead(t, overflow_key,
               n.cells[i + 1].entry.next_page,
               Append(pieces, n.cells[i + 1].entry),
               Append(pages, page_number))))

\* The pieces are the bytes of document doc, all of them and in order.
Spells(pieces, doc) ==
  /\ pieces # <<>>
  /\ \A i \in DOMAIN pieces :
       pieces[i].payload = [kind |-> "doc", doc |-> doc]
  /\ pieces[1].from = 0
  /\ \A i \in 1..(Len(pieces) - 1) :
       pieces[i + 1].from = pieces[i].from + pieces[i].len
  /\ pieces[Len(pieces)].from + pieces[Len(pieces)].len = doc.size

\* The document that the buffer of EntryToDocument holds.
Assemble(pieces) ==
  IF /\ pieces # <<>>
     /\ pieces[1].payload.kind = "doc"
     /\ Spells(pieces, pieces[1].payload.doc)
  THEN pieces[1].payload.doc
  ELSE [id |-> 0, size |-> 0]

\* internal::ReadEntry at the cell and EntryToDocument of the entry.
ReadEntry(t, cell) ==
  IF ~GetIsActive(cell.flags)
  THEN [r |-> "AssertFailed", doc |-> [id |-> 0, size |-> 0]]
  ELSE IF GetIsSinglePageEntry(cell.flags)
  THEN [r |-> "found",
        doc |-> IF cell.entry.kind = "single" THEN cell.entry.doc
                ELSE [id |-> 0, size |-> 0]]
  ELSE IF cell.entry.kind # "overflow"
  THEN [r |-> "AssertFailed", doc |-> [id |-> 0, size |-> 0]]
  ELSE
    With(OverflowEntryRead(t, cell.entry.overflow_key,
                           cell.entry.page_number, <<>>, <<>>), LAMBDA o :
      [r |-> IF o.r = "ok" THEN "found" ELSE o.r,
       doc |-> Assemble(o.pieces)])

\* BTreeManager::retrieve: r is "found" when it returns an entry.
retrieve(t, key) ==
  With(search(t, key), LAMBDA s :
    IF s.r # "ok"
    THEN [r |-> s.r, doc |-> [id |-> 0, size |-> 0]]
    ELSE IF ~IsFound(s)
    THEN [r |-> "empty", doc |-> [id |-> 0, size |-> 0]]
    ELSE IF ~(s.path[Len(s.path)][2] < Len(t.pages[s.node].cells))
    THEN [r |-> "AssertFailed", doc |-> [id |-> 0, size |-> 0]]
    ELSE ReadEntry(t, t.pages[s.node].cells[s.path[Len(s.path)][2] + 1]))

\* BTreeManager::Iterator.  progress is progress_, the top of the stack
\* last; the stack never fills with trees of these heights.
RECURSIVE descendLoop(_, _, _)

\* The while loop of Iterator::descend, descending_page = page_number.
descendLoop(t, progress, page_number) ==
  IF ~IsPointersPage(t.pages[page_number])
  THEN [r |-> "ok", progress |-> progress]
  ELSE IF ~(0 < Len(t.pages[page_number].cells))
  THEN [r |-> "AssertFailed", progress |-> progress]
  ELSE IF loadNodePage(t,
            t.pages[page_number].cells[1].entry.page_number) # "ok"
  THEN [r |-> "AssertFailed", progress |-> progress]
  ELSE descendLoop(t,
         Append(progress,
                <<t.pages[page_number].cells[1].entry.page_number, 0>>),
         t.pages[page_number].cells[1].entry.page_number)

\* Iterator::descend(page, index), page the page numbered page_number.
descend(t, progress, page_number, index) ==
  IF ~IsPointersPage(t.pages[page_number])
  THEN [r |-> "ok", progress |-> progress]
  ELSE
    With(IF index = Len(t.pages[page_number].cells)
         THEN t.pages[page_number].additional_data
         ELSE t.pages[page_number].cells[index + 1].entry.page_number,
         LAMBDA next_page_number :
      IF loadNodePage(t, next_page_number) # "ok"
      THEN [r |-> "AssertFailed", progress |-> progress]
      ELSE descendLoop(t, Append(progress, <<next_page_number, 0>>),
                       next_page_number))

\* Iterator::Iterator(manager), what begin() returns.
IteratorBegin(t) ==
  IF loadNodePage(t, t.root_page_) # "ok"
  THEN [r |-> "AssertFailed", progress |-> <<>>]
  ELSE IF Len(t.pages[t.root_page_].cells) # 0
  THEN descend(t, <<<<t.root_page_, 0>>>>, t.root_page_, 0)
  ELSE [r |-> "ok", progress |-> <<>>]

Pop(progress) == SubSeq(progress, 1, Len(progress) - 1)

Top(progress) == progress[Len(progress)]

RECURSIVE ascendLoop(_, _)

\* The while (!done()) loop of operator++.
ascendLoop(t, progress) ==
  IF progress = <<>>
  THEN [r |-> "ok", progress |-> progress]
  ELSE IF Top(progress)[2] + 1 <= Len(t.pages[Top(progress)[1]].cells)
  THEN descend(t,
         Append(Pop(progress),
                <<Top(progress)[1], Top(progress)[2] + 1>>),
         Top(progress)[1], Top(progress)[2] + 1)
  ELSE ascendLoop(t, Pop(progress))

\* Iterator::operator++ of an iterator that is not done.
IteratorNext(t, progress) ==
  IF Len(t.pages[Top(progress)[1]].cells) <= Top(progress)[2] + 1
  THEN ascendLoop(t, Pop(progress))
  ELSE [r |-> "ok",
        progress |-> Append(Pop(progress),
                       <<Top(progress)[1], Top(progress)[2] + 1>>)]

\* Iterator::operator* of an iterator that is not done; key is the key of
\* the cell it stands on.
IteratorDeref(t, progress) ==
  With(t.pages[Top(progress)[1]], LAMBDA node :
    IF ~(Top(progress)[2] < Len(node.cells)) \/ IsPointersPage(node)
    THEN [r |-> "AssertFailed", key |-> <<>>,
          doc |-> [id |-> 0, size |-> 0]]
    ELSE [key |-> node.cells[Top(progress)[2] + 1].key]
           @@ ReadEntry(t, node.cells[Top(progress)[2] + 1]))

RECURSIVE IterateFrom(_, _, _, _)

\* for (it = begin(); it != end(); ++it) visit(*it), from the iterator
\* whose progress_ is progress on; fuel bounds the steps by more than a
\* walk takes that comes to every cell of every page from every page.
IterateFrom(t, progress, visited, fuel) ==
  IF progress = <<>>
  THEN [r |-> "ok", visited |-> visited]
  ELSE IF fuel = 0
  THEN [r |-> "Endless", visited |-> visited]
  ELSE
    With(IteratorDeref(t, progress), LAMBDA v :
      IF v.r # "found"
      THEN [r |-> v.r, visited |-> visited]
      ELSE
        With(IteratorNext(t, progress), LAMBDA nx :
          IF nx.r # "ok"
          THEN [r |-> nx.r,
                visited |-> Append(visited, [key |-> v.key, doc |-> v.doc])]
          ELSE IterateFrom(t, nx.progress,
                 Append(visited, [key |-> v.key, doc |-> v.doc]),
                 fuel - 1)))

RECURSIVE SumCells(_, _)

SumCells(pages, S) ==
  IF S = {} THEN 0
  ELSE With(CHOOSE p \in S : TRUE, LAMBDA p :
         Len(pages[p].cells) + 1 + SumCells(pages, S \ {p}))

Iterate(t) ==
  With(IteratorBegin(t), LAMBDA b :
    IF b.r # "ok"
    THEN [r |-> b.r, visited |-> <<>>]
    ELSE IterateFrom(t, b.progress, <<>>,
                     SumCells(t.pages, DOMAIN t.pages)
                       * SumCells(t.pages, DOMAIN t.pages)))

(***************************************************************************)
(* Writing: the copies inside a page, vacuum, the splits, AddValue.        *)
(* std::memcpy of ranges that overlap is undefined: mode is the outcome    *)
(* the build takes, bytes copied one by one from the lowest address        *)
(* ("ascending") or the copy std::memmove would make ("memmove").          *)
(***************************************************************************)
MemcpyModes == {"ascending", "memmove"}

\* The key that writeKey copies when data.key is a span of the page being
\* written, delta bytes below where the copy goes: writeFlags has written
\* flags one byte before the destination, and then the bytes are copied.
AliasedKey(key, delta, flags, mode) ==
  With(IF delta \in 1..Len(key) THEN [key EXCEPT ![delta] = flags] ELSE key,
       LAMBDA source :
    IF delta \in 1..(Len(key) - 1) /\ mode = "ascending"
    THEN [i \in 1..Len(key) |-> source[((i - 1) % delta) + 1]]
    ELSE source)

\* The same where key sizes are specified: writeKey writes the size of
\* the key between the flags and the key.
AliasedSizedKey(key, delta, flags, mode) ==
  With([i \in 1..Len(key) |->
          IF i = delta - 2 THEN flags
          ELSE IF i = delta - 1 THEN Len(key) % 256
          ELSE IF i = delta THEN Len(key) \div 256
          ELSE key[i]],
       LAMBDA source :
    IF delta \in 1..(Len(key) - 1) /\ mode = "ascending"
    THEN [i \in 1..Len(key) |-> source[((i - 1) % delta) + 1]]
    ELSE source)

\* An entry some of whose bytes are no longer what was written.
Garble(entry) ==
  CASE entry.kind = "single" ->
         [entry EXCEPT !.doc = [id |-> 0, size |-> entry.doc.size]]
    [] entry.kind = "overflow" -> [entry EXCEPT !.page_number = 0]
    [] entry.kind = "pointer" -> [entry EXCEPT !.page_number = 0]
    [] entry.kind = "chunk" ->
         [entry EXCEPT !.payload = [kind |-> "doc",
                                    doc |-> [id |-> 0, size |-> 0]]]

\* Transaction::MoveInPage of the size bytes at cell.offset to delta
\* bytes above: the cell that is then read at the new offset.
MovedCell(n, cell, delta, size, mode) ==
  IF \/ delta = 0
     \/ size <= delta
     \/ mode = "memmove"
     \/ CellBytes(cell) <= delta
  THEN [cell EXCEPT !.offset = @ + delta]
  ELSE IF CellHeaderSpace(n, cell.key) <= delta
  THEN [cell EXCEPT !.offset = @ + delta, !.entry = Garble(@)]
  ELSE [cell EXCEPT !.offset = @ + delta,
                    !.key = SubSeq(AliasedKey(<<cell.flags>> \o cell.key,
                                              delta, cell.flags, mode),
                                   2, Len(cell.key) + 1),
                    !.entry = Garble(@)]

\* The order of the for loop of vacuum: the cell with the higher offset
\* first, of two cells at one offset the one with the lower number.
VacuumsBefore(n, i, j) ==
  \/ n.cells[j].offset < n.cells[i].offset
  \/ n.cells[j].offset = n.cells[i].offset /\ i < j

RECURSIVE vacuumCells(_, _, _, _)

\* The for loop of vacuum over the cells numbered todo, highest offset
\* first.  A cell is never moved down in the pages the splits vacuum;
\* the loop says "MovedDown" if one were.  More than one cell is the half
\* that comes first in the loop and then, in the page as that left it, the
\* other cells: the same moves in the same order.
vacuumCells(n, todo, next_point, mode) ==
  IF todo = {}
  THEN [n |-> n, next_point |-> next_point, r |-> "ok"]
  ELSE IF Cardinality(todo) = 1
  THEN
    With(CHOOSE i \in todo : TRUE, LAMBDA i :
      With(GetCellSize(n, n.cells[i]), LAMBDA cell_size :
        IF \/ ~(n.cells[i].offset + cell_size <= PageSize)
           \/ ~(PageSizeT(next_point - cell_size + 65536) + cell_size
                  <= PageSize)
        THEN [n |-> n, next_point |-> next_point, r |-> "RequireFailed"]
        ELSE IF next_point - cell_size < n.cells[i].offset
        THEN [n |-> n, next_point |-> next_point, r |-> "MovedDown"]
        ELSE [n |-> [n EXCEPT !.cells[i] =
                       MovedCell(n, @,
                                 next_point - cell_size - n.cells[i].offset,
                                 cell_size, mode)],
              next_point |-> next_point - cell_size,
              r |-> "ok"]))
  ELSE
    With({i \in todo :
            Cardinality({j \in todo : VacuumsBefore(n, j, i)})
              < Cardinality(todo) \div 2},
         LAMBDA first :
      With(vacuumCells(n, first, next_point, mode), LAMBDA v :
        IF v.r # "ok"
        THEN v
        ELSE vacuumCells(v.n, todo \ first, v.next_point, mode)))

\* The loop and, behind it, header.SetFreeEnd(next_point).
vacuumLoop(n, todo, next_point, mode) ==
  With(vacuumCells(n, todo, next_point, mode), LAMBDA v :
    IF v.r # "ok"
    THEN [n |-> v.n, r |-> v.r]
    ELSE [n |-> [v.n EXCEPT !.free_end = v.next_point], r |-> "ok"])

\* BTreeManager::vacuum(node), node the page numbered page_number.
vacuum(t, page_number, mode) ==
  IF ~(Len(t.pages[page_number].cells) < 256)
  THEN [t |-> t, r |-> "RequireFailed"]
  ELSE With(vacuumLoop(t.pages[page_number],
                       DOMAIN t.pages[page_number].cells,
                       t.pages[page_number].reserved_start, mode),
            LAMBDA v :
         [t |-> [t EXCEPT !.pages[page_number] = v.n], r |-> v.r])

\* The creator that the splits copy a cell of page n with.
CopyCreator(n, cell) ==
  IF IsPointersPage(n)
  THEN MakeSizelessCreator(cell.entry.page_number)
  ELSE EntryCopier(cell.flags, cell.entry)

RECURSIVE moveCells(_, _, _, _, _)

\* The loop of splitSingleNode that adds cells i..last of page from to the
\* page to; what addElementToNode returns is not looked at.  More than one
\* cell is the lower half of i..last and then, on what that left, the
\* upper half: the same calls in the same order.
moveCells(t, from, to, i, last) ==
  IF last < i
  THEN [t |-> t, r |-> "ok"]
  ELSE IF i = last
  THEN
    With(addElementToNode(t, to, t.pages[from].cells[i].key,
                          CopyCreator(t.pages[from],
                                      t.pages[from].cells[i]),
                          TRUE),
         LAMBDA a :
      [t |-> a.t, r |-> IF a.r \in {"true", "false"} THEN "ok" ELSE a.r])
  ELSE
    With(moveCells(t, from, to, i, (i + last) \div 2), LAMBDA s :
      IF s.r # "ok"
      THEN s
      ELSE moveCells(s.t, from, to, ((i + last) \div 2) + 1, last))

PointersPageHasRight(n) == ~IsPointersPage(n) \/ n.additional_data # 0

\* do_balanced_split and the number of cells that go to the new page.
NumToMove(t, n) ==
  IF t.key_type_ # "UInt64"
  THEN Len(n.cells) \div 2 ELSE Len(n.cells) - 1

\* splitSingleNode up to the call of vacuum: the cells below the split
\* point go to a new page, the new data to one of the two pages.
splitCells(t, page_number, data) ==
  With(newNodePage(t, GetPageType(t.pages[page_number]), 0), LAMBDA g :
   With(t.pages[page_number], LAMBDA node :
    With(node.cells[NumToMove(t, node)], LAMBDA split_cell :
     With(moveCells(
            IF IsPointersPage(node)
            THEN [g.t EXCEPT !.pages[g.page_number].additional_data =
                               split_cell.entry.page_number]
            ELSE g.t,
            page_number, g.page_number, 1, NumToMove(t, node)),
          LAMBDA m :
      IF m.r # "ok"
      THEN [t |-> m.t, r |-> m.r, c |-> data.c,
            left_page |-> g.page_number, split_key |-> split_cell.key]
      ELSE
       With(addElementToNode(
              [m.t EXCEPT !.pages[page_number].cells =
                            SubSeq(@, NumToMove(t, node) + 1, Len(@))],
              IF lte(data.key, split_cell.key)
              THEN g.page_number ELSE page_number,
              data.key, data.c, TRUE),
            LAMBDA a :
        [t |-> a.t, r |-> a.r, c |-> a.c,
         left_page |-> g.page_number, split_key |-> split_cell.key])))))

\* BTreeManager::splitSingleNode(node, data), node the page numbered
\* page_number, data = [key, c]; every caller passes data.
splitSingleNode(t, page_number, data, mode) ==
  With(splitCells(t, page_number, data), LAMBDA a :
    IF a.r \notin {"true", "false"}
    THEN a
    ELSE
      With(vacuum(a.t, page_number, mode), LAMBDA v :
        [t |-> v.t,
         r |-> IF v.r # "ok" THEN v.r
               ELSE IF /\ PointersPageHasRight(v.t.pages[page_number])
                       /\ PointersPageHasRight(v.t.pages[a.left_page])
               THEN "ok" ELSE "AssertFailed",
         c |-> a.c,
         left_page |-> a.left_page,
         split_key |-> a.split_key]))

RECURSIVE copyRootRange(_, _, _, _, _, _)

\* The for loop of splitRoot over the cells i..last (cells are numbered
\* from 0 in the code, from 1 here), num_for_left as in the code.  More
\* than one cell is the lower half of i..last and then, on what that
\* left, the upper half: the same calls in the same order.
copyRootRange(t, left, right, i, last, num_for_left) ==
  IF last < i
  THEN [t |-> t, r |-> "ok"]
  ELSE IF i = last
  THEN
    With(t.pages[t.root_page_], LAMBDA root :
      IF IsPointersPage(root) /\ i - 1 = num_for_left
      THEN [t |-> [t EXCEPT !.pages[IF i - 1 <= num_for_left
                                    THEN left ELSE right].additional_data =
                              root.cells[i].entry.page_number],
            r |-> "ok"]
      ELSE
        With(addElementToNode(t,
               IF i - 1 <= num_for_left THEN left ELSE right,
               root.cells[i].key, CopyCreator(root, root.cells[i]), TRUE),
             LAMBDA a :
          [t |-> a.t,
           r |-> IF a.r = "true" THEN "ok"
                 ELSE IF a.r = "false" THEN "AssertFailed" ELSE a.r]))
  ELSE
    With(copyRootRange(t, left, right, i, (i + last) \div 2, num_for_left),
         LAMBDA s :
      IF s.r # "ok"
      THEN s
      ELSE copyRootRange(s.t, left, right, ((i + last) \div 2) + 1, last,
                         num_for_left))

\* The for loop of splitRoot from cell i on.
copyRootCells(t, left, right, i, num_for_left) ==
  copyRootRange(t, left, right, i, Len(t.pages[t.root_page_].cells),
                num_for_left)

\* A resetRoot whose cell points at the child of the split cell when the
\* root was a pointers page: a page one level too low.
resetRootShallow(t, left, right, split_cell, mode) ==
  With([t.pages[t.root_page_] EXCEPT
          !.cells = <<>>,
          !.free_end = t.pages[t.root_page_].reserved_start,
          !.flags = BitOr(@, 1)],
       LAMBDA root :
    With(addElementToNode(
           [t EXCEPT !.pages[t.root_page_] = root], t.root_page_,
           split_cell.key,
           MakeSizelessCreator(IF split_cell.entry.kind = "pointer"
                               THEN split_cell.entry.page_number ELSE left),
           TRUE),
         LAMBDA b :
      IF b.r \notin {"true", "false"}
      THEN [t |-> b.t, r |-> b.r]
      ELSE [t |-> [b.t EXCEPT !.pages[t.root_page_].additional_data = right],
            r |-> "ok"]))

\* A resetRoot that never sets the rightmost child of the root.
resetRootNoRight(t, left, right, split_cell, mode) ==
  With([t.pages[t.root_page_] EXCEPT
          !.cells = <<>>,
          !.free_end = t.pages[t.root_page_].reserved_start,
          !.flags = BitOr(@, 1)],
       LAMBDA root :
    With(addElementToNode(
           [t EXCEPT !.pages[t.root_page_] = root], t.root_page_,
           split_cell.key, MakeSizelessCreator(left), TRUE),
         LAMBDA b : [t |-> b.t, r |-> IF b.r \in {"true", "false"}
                                      THEN "ok" ELSE b.r]))

\* The end of splitRoot: the root is cleared and made a pointers page
\* with one cell, split_key -> left; split_key is still the span of the
\* key of split_cell in the root page.
resetRoot(t, left, right, split_cell, mode) ==
  With([t.pages[t.root_page_] EXCEPT
          !.cells = <<>>,
          !.free_end = t.pages[t.root_page_].reserved_start,
          !.flags = BitOr(@, 1)],
       LAMBDA root :
    With(addElementToNode(
           [t EXCEPT !.pages[t.root_page_] = root], t.root_page_,
           IF AreKeySizesSpecified(root)
           THEN AliasedSizedKey(split_cell.key,
                      root.reserved_start
                        - (CellHeaderSpace(root, split_cell.key) + 8)
                        - split_cell.offset,
                      writeFlags(root, MakeSizelessCreator(left)), mode)
           ELSE AliasedKey(split_cell.key,
                      root.reserved_start
                        - (CellHeaderSpace(root, split_cell.key) + 8)
                        - split_cell.offset,
                      writeFlags(root, MakeSizelessCreator(left)), mode),
           MakeSizelessCreator(left), TRUE),
         LAMBDA b :
      IF b.r \notin {"true", "false"}
      THEN [t |-> b.t, r |-> b.r]
      ELSE [t |-> [b.t EXCEPT !.pages[t.root_page_].additional_data = right],
            r |-> "ok"]))

\* BTreeManager::splitRoot(data).
splitRoot(t, data, mode) ==
  IF loadNodePage(t, t.root_page_) # "ok"
  THEN [t |-> t, r |-> "AssertFailed", c |-> data.c]
  ELSE
   With(t.pages[t.root_page_], LAMBDA root :
    With(newNodePage(t, IF IsPointersPage(root) THEN 1 ELSE 0, 0),
         LAMBDA l :
     With(newNodePage(l.t, IF IsPointersPage(root) THEN 1 ELSE 0, 0),
          LAMBDA g :
      With(copyRootCells(g.t, l.page_number, g.page_number, 1,
                         NumToMove(t, root)),
           LAMBDA m :
       IF m.r # "ok"
       THEN [t |-> m.t, r |-> m.r, c |-> data.c]
       ELSE
        With(addElementToNode(
               IF IsPointersPage(root)
               THEN [m.t EXCEPT !.pages[g.page_number].additional_data =
                                  root.additional_data]
               ELSE m.t,
               IF lte(data.key, root.cells[NumToMove(t, root) + 1].key)
               THEN l.page_number ELSE g.page_number,
               data.key, data.c, ~IsPointersPage(root)),
             LAMBDA a :
         IF a.r \notin {"true", "false"}
         THEN [t |-> a.t, r |-> a.r, c |-> a.c]
         ELSE [c |-> a.c]
                @@ resetRoot(a.t, l.page_number, g.page_number,
                             root.cells[NumToMove(t, root) + 1], mode))))))

RECURSIVE splitNode(_, _, _, _, _)

\* The end of splitNode: split_key -> left_page is added to the parent,
\* which is split in turn when it cannot take it.  path is result.path
\* after the Pop().
addToParent(t, parent, path, split_key, c, mode) ==
  IF \/ max_entries_per_page_ <= Len(t.pages[parent].cells)
     \/ Min(max_entry_size_,
            CalculateSpaceRequirements(t.pages[parent],
                                       split_key).max_entry_space)
          < MinimumEntrySize
  THEN splitNode(t, parent, path, [key |-> split_key, c |-> c], mode)
  ELSE
    With(addElementToNode(t, parent, split_key, c, TRUE), LAMBDA a :
      IF a.r = "true"
      THEN [t |-> a.t, r |-> "ok", c |-> a.c]
      ELSE IF a.r = "false"
      THEN splitNode(a.t, parent, path,
                     [key |-> split_key, c |-> a.c], mode)
      ELSE a)

\* BTreeManager::splitNode(node, result, data), node the page numbered
\* page_number and path = result.path.
splitNode(t, page_number, path, data, mode) ==
  IF IsRootPage(t.pages[page_number])
  THEN splitRoot(t, data, mode)
  ELSE
    With(splitSingleNode(t, page_number, data, mode), LAMBDA s :
      IF s.r # "ok"
      THEN [t |-> s.t, r |-> s.r, c |-> s.c]
      ELSE IF loadNodePage(s.t, Top(Pop(path))[1]) # "ok"
      THEN [t |-> s.t, r |-> "AssertFailed", c |-> s.c]
      ELSE
        With(addToParent(s.t, Top(Pop(path))[1], Pop(path), s.split_key,
                         MakeSizelessCreator(s.left_page), mode),
             LAMBDA p :
          [t |-> p.t,
           r |-> IF p.r # "ok" THEN p.r
                 ELSE IF PointersPageHasRight(p.t.pages[Top(Pop(path))[1]])
                 THEN "ok" ELSE "AssertFailed",
           c |-> s.c]))

serialize_key_size_(t) == t.key_type_ = "String"

\* necessary_space of AddValue.
NecessarySpace(t, key, c) ==
  2 + MinimumEntrySize + (IF ~GetNeedsOverflow(c) THEN 4 ELSE 0)
    + (IF serialize_key_size_(t) THEN 2 ELSE 0) + Len(key)

\* BTreeManager::AddValue(key, entry_creator): r is "ok" when it returns,
\* else the exception that left it; t is the tree it leaves either way.
BTreeAddValue(t, key, c, mode) ==
  With(search(t, key), LAMBDA s :
    IF s.r # "ok"
    THEN [t |-> t, r |-> s.r, c |-> c]
    ELSE IF /\ min_space_for_entry_
                 <= GetDefragmentedFreeSpace(t.pages[s.node])
            /\ NecessarySpace(t, key, c)
                 <= GetDefragmentedFreeSpace(t.pages[s.node])
            /\ Len(t.pages[s.node].cells) + 1 <= max_entries_per_page_
    THEN
      With(addElementToNode(t, s.node, key, c, TRUE), LAMBDA a :
        [t |-> a.t,
         r |-> IF a.r = "true" THEN "ok"
               ELSE IF a.r = "false" THEN "AssertFailed" ELSE a.r,
         c |-> a.c])
    ELSE
      With(splitNode(t, s.node, s.path, [key |-> key, c |-> c], mode),
           LAMBDA p :
        [t |-> p.t,
         r |-> IF p.r # "ok" THEN p.r
               ELSE IF PointersPageHasRight(p.t.pages[s.node])
               THEN "ok" ELSE "AssertFailed",
         c |-> p.c]))

(***************************************************************************)
(* The collection: one B-tree with UInt64 keys, and what was done to it.   *)
(***************************************************************************)
MaxKey == 4                 \* keys are 1..MaxKey

MaxAddValues == 4           \* AddValue is called at most this often

SmallDocumentSize == 200    \* bytes of a document that fits in a leaf

LargeDocumentSize == 600    \* bytes of a document that needs overflow

Keys == 1..MaxKey

\* The documents offered under key: no two keys are offered the same.
Documents(key) ==
  {[id |-> 2 * key - 1, size |-> SmallDocumentSize],
   [id |-> 2 * key, size |-> LargeDocumentSize]}

RECURSIVE LeafCellsFrom(_, _)

\* The key and the document of every cell of the leaves under the page.
LeafCellsFrom(t, page_number) ==
  IF page_number \notin DOMAIN t.pages
  THEN {}
  ELSE IF IsPointersPage(t.pages[page_number])
  THEN UNION {LeafCellsFrom(t, child) :
                child \in {t.pages[page_number].cells[i].entry.page_number :
                             i \in DOMAIN t.pages[page_number].cells}
                          \cup {t.pages[page_number].additional_data}}
  ELSE {[key |-> t.pages[page_number].cells[i].key,
         value |-> ReadEntry(t, t.pages[page_number].cells[i])] :
          i \in DOMAIN t.pages[page_number].cells}

\* What the collection holds.
Contents(t) == LeafCellsFrom(t, t.root_page_)

\* CreateNewBTree(page_cache, DataTypeEnum::UInt64) and the BTreeManager
\* over it.  The reserved space of the root is the key type, the flags and
\* three words: the overflow page number at 2, the overflow entry number at
\* 10 and the auto-incrementing key at 18.  A zero is written at offset 2
\* and nowhere else, so auto_incrementing_key is what the frame held there.
CreateNewBTree(held) ==
  [pages |-> (RootPage :> InitializePage(RootPage, 2, 2 + 16 + 8)),
   next_page |-> RootPage + 1,
   root_page_ |-> RootPage,
   key_type_ |-> "UInt64",
   current_overflow_page_number_ |-> 0,
   next_overflow_entry_number_ |-> 0,
   auto_incrementing_key |-> held]

\* The first collection of a database, in a frame of the cache that nothing
\* was loaded into before; nothing has been done to the collection yet.
TreeInit ==
  /\ tree = CreateNewBTree(0)
  /\ stored = <<>>
  /\ chains = {}
  /\ calls = 0
  /\ treeOp = [op |-> "CreateNewBTree", key |-> 0,
               doc |-> [id |-> 0, size |-> 0], r |-> "ok",
               before |-> {}, visited |-> <<>>]

\* AddValue(collection, key, document): the document is serialized by an
\* EntryCreator and given to BTreeManager::AddValue.
AddValue(key, doc, mode) ==
  /\ calls < MaxAddValues
  /\ \E a \in {BTreeAddValue(tree, SpanValue(key), MakeCreator(doc), mode)} :
       /\ tree' = a.t
       /\ stored' = IF a.r = "ok" /\ key \notin DOMAIN stored
                    THEN MapPut(stored, key, doc) ELSE stored
       /\ chains' = IF /\ a.c.header # NoHeader
                       /\ a.c.sent = GetRequiredSize(a.c.payload)
                    THEN chains \cup {[doc |-> doc] @@ a.c.header}
                    ELSE chains
       /\ treeOp' = [op |-> "AddValue", key |-> key, doc |-> doc,
                     r |-> a.r, before |-> Contents(tree),
                     visited |-> <<>>]
  /\ calls' = calls + 1
  /\ UNCHANGED notTreeVars

\* BTreeManager::getNextPrimaryKey: the key, and the tree with the key
\* after it written to the root.
getNextPrimaryKey(t) ==
  IF t.key_type_ # "UInt64" \/ loadNodePage(t, t.root_page_) # "ok"
  THEN [r |-> "AssertFailed", t |-> t, pk |-> 0]
  ELSE [r |-> "ok",
        t |-> [t EXCEPT !.auto_incrementing_key = @ + 1],
        pk |-> t.auto_incrementing_key]

\* AddValue(collection, document): BTreeManager::AddValue(entry_creator),
\* which takes the key from getNextPrimaryKey.
AddValueAuto(doc, mode) ==
  /\ calls < MaxAddValues
  /\ \E n \in {getNextPrimaryKey(tree)} :
     \E a \in {IF n.r # "ok" THEN [t |-> n.t, r |-> n.r, c |-> MakeCreator(doc)]
               ELSE BTreeAddValue(n.t, SpanValue(n.pk), MakeCreator(doc),
                                  mode)} :
       /\ tree' = a.t
       /\ stored' = IF a.r = "ok" /\ n.pk \notin DOMAIN stored
                    THEN MapPut(stored, n.pk, doc) ELSE stored
       /\ chains' = IF /\ a.c.header # NoHeader
                       /\ a.c.sent = GetRequiredSize(a.c.payload)
                    THEN chains \cup {[doc |-> doc] @@ a.c.header}
                    ELSE chains
       /\ treeOp' = [op |-> "AddValueAuto", key |-> n.pk, doc |-> doc,
                     r |-> a.r, before |-> Contents(tree),
                     visited |-> <<>>]
  /\ calls' = calls + 1
  /\ UNCHANGED notTreeVars

\* retrieve(collection, key) and EntryToDocument of the entry.
Retrieve(key) ==
  /\ \E a \in {retrieve(tree, SpanValue(key))} :
       treeOp' = [op |-> "retrieve", key |-> key, doc |-> a.doc,
                  r |-> a.r, before |-> {}, visited |-> <<>>]
  /\ UNCHANGED <<tree, stored, chains, calls, notTreeVars>>

\* The database is closed and opened again: a new BTreeManager over the
\* same pages, whose overflow counters start from their initializers.
Reopen ==
  /\ \/ tree.current_overflow_page_number_ # 0
     \/ tree.next_overflow_entry_number_ # 0
  /\ tree' = [tree EXCEPT !.current_overflow_page_number_ = 0,
                          !.next_overflow_entry_number_ = 0]
  /\ treeOp' = [op |-> "BTreeManager", key |-> 0,
                doc |-> [id |-> 0, size |-> 0], r |-> "ok",
                before |-> {}, visited |-> <<>>]
  /\ UNCHANGED <<stored, chains, calls, notTreeVars>>

\* for (auto it = begin(); it != end(); ++it) over the collection.
IterateCollection ==
  /\ \E a \in {Iterate(tree)} :
       treeOp' = [op |-> "iterate", key |-> 0,
                  doc |-> [id |-> 0, size |-> 0], r |-> a.r,
                  before |-> {}, visited |-> a.visited]
  /\ UNCHANGED <<tree, stored, chains, calls, notTreeVars>>

(***************************************************************************)
(* A program that fills the collection in a loop, as data-manager-example  *)
(* does: one AddValue without a key after the other, until the count is    *)
(* reached or an exception leaves the loop.                                *)
(***************************************************************************)
MaxInserts == 100           \* the loop adds at most this many documents

\* The document the loop adds under the key pk.
LoopDocument(pk) == [id |-> 1000 + pk, size |-> SmallDocumentSize]

RECURSIVE insertLoop(_, _, _, _, _)

\* for (; pk < num_to_insert; ++pk) manager.AddValue(...) with n rounds to
\* go; st and ch are what the rounds before stored and chained.  More than
\* one round is the first n \div 2 rounds and then, on what they left, the
\* other rounds: the same calls in the same order, evaluated without one
\* level of nesting for each round.
insertLoop(t, st, ch, n, mode) ==
  IF n = 0
  THEN [t |-> t, stored |-> st, chains |-> ch, r |-> "ok"]
  ELSE IF n = 1
  THEN
    With(getNextPrimaryKey(t), LAMBDA k :
      IF k.r # "ok"
      THEN [t |-> k.t, stored |-> st, chains |-> ch, r |-> k.r]
      ELSE
        With(BTreeAddValue(k.t, SpanValue(k.pk),
                           MakeCreator(LoopDocument(k.pk)), mode),
             LAMBDA a :
          IF a.r # "ok"
          THEN [t |-> a.t, stored |-> st, chains |-> ch, r |-> a.r]
          ELSE [t      |-> a.t,
                stored |-> MapPut(st, k.pk, LoopDocument(k.pk)),
                chains |-> IF /\ a.c.header # NoHeader
                              /\ a.c.sent = GetRequiredSize(a.c.payload)
                           THEN ch \cup {[doc |-> LoopDocument(k.pk)]
                                           @@ a.c.header}
                           ELSE ch,
                r      |-> "ok"]))
  ELSE
    With(insertLoop(t, st, ch, n \div 2, mode), LAMBDA s :
      IF s.r # "ok"
      THEN s
      ELSE insertLoop(s.t, s.stored, s.chains, n - (n \div 2), mode))

\* The loop run on the collection just created, for num_to_insert
\* documents; one more AddValue may follow it.
InsertLoop(num_to_insert, mode) ==
  /\ calls = 0
  /\ \E a \in {insertLoop(tree, stored, chains, num_to_insert, mode)} :
       /\ tree' = a.t
       /\ stored' = a.stored
       /\ chains' = a.chains
       /\ treeOp' = [op |-> "InsertLoop", key |-> num_to_insert,
                     doc |-> [id |-> 0, size |-> 0], r |-> a.r,
                     before |-> {}, visited |-> <<>>]
  /\ calls' = MaxAddValues - 1
  /\ UNCHANGED notTreeVars

(***************************************************************************)
(* The collection index of a database: a B-tree with String keys, the      *)
(* names of the collections, whose root is the first page behind the meta  *)
(* page and the free list page.  tree is then the index; the roots of the  *)
(* collections are pages of the same file.                                 *)
(***************************************************************************)
NameLength == 100           \* bytes of a collection name

MaxNames == 4               \* names are CollectionName(1..MaxNames)

MaxCollections == 4         \* AddCollection is called at most this often

IndexPage == 2              \* the page DataManager::DataManager gets first

\* SpanValue of the name numbered k: a letter of its own and then the
\* letters every name has.
CollectionName(k) == [i \in 1..NameLength |-> IF i = 1 THEN 96 + k ELSE 120]

KeyTypes == {"UInt64", "String"}

\* The root page that CreateNewBTree(page_cache, key_type) makes of the
\* new page it gets.
NewRoot(page_number, key_type) ==
  [InitializePage(page_number, 2,
                  2 + 16 + (IF key_type = "UInt64" THEN 8 ELSE 0))
     EXCEPT !.flags = IF key_type = "String" THEN BitOr(@, 4) ELSE @]

\* DataManager::DataManager on a new directory: createDB made pages 0
\* and 1, the collection index gets the next page.
IndexInit ==
  /\ tree = [pages |-> (IndexPage :> NewRoot(IndexPage, "String")),
             next_page |-> IndexPage + 1,
             root_page_ |-> IndexPage,
             key_type_ |-> "String",
             current_overflow_page_number_ |-> 0,
             next_overflow_entry_number_ |-> 0,
             auto_incrementing_key |-> 0]
  /\ stored = <<>>
  /\ chains = {}
  /\ calls = 0
  /\ treeOp = [op |-> "DataManager", key |-> 0,
               doc |-> [id |-> 0, size |-> 0], r |-> "ok",
               before |-> {}, visited |-> <<>>]

\* The entry of a collection in the index: SpanValue(page_number).
IndexEntry(page_number) == [id |-> page_number, size |-> 8]

\* DataManager::AddCollection(collection_name, key_type) with the index as
\* a tree: CreateNewBTree takes a page for the root of the collection, and
\* the name goes into the index with the number of that page.  The index
\* is followed until its root has split.
AddCollectionIndexed(k, key_type, mode) ==
  /\ tree.root_page_ = IndexPage
  /\ calls < MaxCollections
  /\ treeOp.r # "Terminated"
  /\ ~IsPointersPage(tree.pages[tree.root_page_])
  /\ \E page_number \in {tree.next_page} :
     \E a \in {BTreeAddValue(
                 [tree EXCEPT
                    !.pages = MapPut(@, page_number,
                                     NewRoot(page_number, key_type)),
                    !.next_page = @ + 1],
                 CollectionName(k), MakeCreator(IndexEntry(page_number)),
                 mode)} :
       /\ tree' = a.t
       /\ stored' = IF a.r = "ok" /\ k \notin DOMAIN stored
                    THEN MapPut(stored, k, IndexEntry(page_number))
                    ELSE stored
       /\ treeOp' = [op |-> "AddCollection", key |-> k,
                     doc |-> IndexEntry(page_number), r |-> a.r,
                     before |-> {}, visited |-> <<>>]
  /\ calls' = calls + 1
  /\ UNCHANGED <<chains, notTreeVars>>

(***************************************************************************)
(* Queries: a Condition over documents and the BTreeQueryIterator that     *)
(* filters a BTreeManager::Iterator by it.  The one field the documents of *)
(* the collection carry is the integer "id".                               *)
(***************************************************************************)
\* Document::GetElement(field_name) and TryGetAs<int>(field_name): the
\* value when the document has the field, nothing otherwise.
GetElement(document, field_name) ==
  IF field_name = "id" THEN <<document.id>> ELSE <<>>

FieldNames == {"id", "age"}

\* The conditions offered to a query: AlwaysTrue, comparisons of a field
\* with a value, HasField.
Conditions ==
  {[kind |-> "AlwaysTrue", field_name |-> "", value |-> 0]}
    \cup [kind : {"Equal", "LessEqual", "GreaterThan"},
          field_name : FieldNames, value : {3}]
    \cup [kind : {"HasField"}, field_name : FieldNames, value : {0}]

\* Condition::operator(), the Test of the condition's Impl.
Test(condition, document) ==
  IF condition.kind = "AlwaysTrue"
  THEN TRUE
  ELSE IF GetElement(document, condition.field_name) = <<>>
  THEN FALSE
  ELSE IF condition.kind = "HasField"
  THEN TRUE
  ELSE IF condition.kind = "Equal"
  THEN GetElement(document, condition.field_name)[1] = condition.value
  ELSE IF condition.kind = "LessEqual"
  THEN GetElement(document, condition.field_name)[1] <= condition.value
  ELSE GetElement(document, condition.field_name)[1] > condition.value

RECURSIVE advance(_, _, _, _)

\* BTreeQueryIterator::advance, iterator_ standing at progress: the first
\* entry from there on whose document meets the condition, or the end.
advance(t, progress, condition, fuel) ==
  IF progress = <<>>
  THEN [r |-> "ok", progress |-> progress]
  ELSE IF fuel = 0
  THEN [r |-> "Endless", progress |-> progress]
  ELSE
    With(IteratorDeref(t, progress), LAMBDA v :
      IF v.r # "found"
      THEN [r |-> v.r, progress |-> progress]
      ELSE IF Test(condition, v.doc)
      THEN [r |-> "ok", progress |-> progress]
      ELSE
        With(IteratorNext(t, progress), LAMBDA nx :
          IF nx.r # "ok"
          THEN nx
          ELSE advance(t, nx.progress, condition, fuel - 1)))

\* BTreeQueryIterator(iterator, condition) with iterator = begin().
QueryBegin(t, condition, fuel) ==
  With(IteratorBegin(t), LAMBDA b :
    IF b.r # "ok" THEN b ELSE advance(t, b.progress, condition, fuel))

\* operator++ without its advance(): the wrapped iterator's increment.
QueryIncrementUnfiltered(t, progress, condition, fuel) ==
  IteratorNext(t, progress)

\* BTreeQueryIterator::operator++ of an iterator that is not at the end.
QueryIncrement(t, progress, condition, fuel) ==
  With(IteratorNext(t, progress), LAMBDA nx :
    IF nx.r # "ok" THEN nx ELSE advance(t, nx.progress, condition, fuel))

RECURSIVE QueryFrom(_, _, _, _, _)

\* for (; !iterator.IsEnd(); ++iterator) visit(*iterator), from the query
\* iterator whose iterator_ stands at progress on.
QueryFrom(t, progress, condition, visited, fuel) ==
  IF progress = <<>>
  THEN [r |-> "ok", visited |-> visited]
  ELSE IF fuel = 0
  THEN [r |-> "Endless", visited |-> visited]
  ELSE
    With(IteratorDeref(t, progress), LAMBDA v :
      IF v.r # "found"
      THEN [r |-> v.r, visited |-> visited]
      ELSE
        With(QueryIncrement(t, progress, condition, fuel), LAMBDA nx :
          IF nx.r # "ok"
          THEN [r |-> nx.r,
                visited |-> Append(visited, [key |-> v.key, doc |-> v.doc])]
          ELSE QueryFrom(t, nx.progress, condition,
                 Append(visited, [key |-> v.key, doc |-> v.doc]),
                 fuel - 1)))

\* The whole query: the entries the loop over the query iterator visits.
Query(t, condition) ==
  With(SumCells(t.pages, DOMAIN t.pages) * SumCells(t.pages, DOMAIN t.pages),
       LAMBDA fuel :
    With(QueryBegin(t, condition, fuel), LAMBDA b :
      IF b.r # "ok"
      THEN [r |-> b.r, visited |-> <<>>]
      ELSE QueryFrom(t, b.progress, condition, <<>>, fuel)))

\* A query over the collection with the condition.
QueryCollection(condition) ==
  /\ \E a \in {Query(tree, condition)} :
       treeOp' = [op |-> "query", key |-> 0,
                  doc |-> [id |-> 0, size |-> 0], r |-> a.r,
                  before |-> {}, visited |-> a.visited,
                  condition |-> condition]
  /\ UNCHANGED <<tree, stored, chains, calls, notTreeVars>>

(***************************************************************************)
(* DataAccessLayer: the meta and the free list on their pages.  A page of  *)
(* neversql.db is the sequence of the values written to it, in the order   *)
(* of their offsets.                                                       *)
(***************************************************************************)
MetaMagicNumber == "NeverSQL"   \* Meta::meta_magic_number_

PageSizePower == 12             \* Meta meta_ {12}

\* Meta::Meta(uint8_t page_size_power): the members after the member
\* initialisers, page_size_ being static_cast<page_size_t>(1 << power), and
\* what the REQUIRE of the body says of the exponent.
Meta(page_size_power) ==
  [meta   |-> [page_size_power_ |-> page_size_power,
               page_size_       |-> PageSizeT(2 ^ page_size_power),
               free_list_page_  |-> 0,
               index_page_      |-> 0],
   result |-> IF 9 <= page_size_power /\ page_size_power <= 16
              THEN "ok" ELSE "RequireFailed"]

\* Meta after DataAccessLayer's member initialiser, meta_ {12}.
MetaNew == Meta(PageSizePower).meta

\* serialize(Page&, const Meta&): magic, exponent, free-list page, index page.
serializeMeta(meta) ==
  <<MetaMagicNumber, meta.page_size_power_, meta.free_list_page_,
    meta.index_page_>>

\* deserialize(const Page&, Meta&).
deserializeMeta(page, meta) ==
  IF page[1] # MetaMagicNumber
  THEN [meta |-> meta, result |-> "AssertFailed"]
  ELSE [meta   |-> [meta EXCEPT !.page_size_power_ = page[2],
                                !.page_size_ = PageSizeT(2 ^ page[2]),
                                !.free_list_page_ = page[3],
                                !.index_page_ = page[4]],
        result |-> "ok"]

\* serialize(Page&, const FreeList&): next_page_number_, the count, the freed
\* pages, 8 bytes each from offset 0; FreestandingPage::writeToPage requires
\* offset + 8 <= page_size_ for each.
serializeFreeList(free_list) ==
  IF 16 + 8 * Len(free_list.freed_pages_) > DefaultPageSize
  THEN [page |-> <<>>, result |-> "RequireFailed"]
  ELSE [page   |-> <<free_list.next_page_number_,
                     Len(free_list.freed_pages_)>>
                     \o free_list.freed_pages_,
        result |-> "ok"]

\* deserialize(const Page&, FreeList&): the pages are pushed onto the list.
deserializeFreeList(page, free_list) ==
  [free_list EXCEPT
     !.next_page_number_ = page[1],
     !.freed_pages_ = @ \o [i \in 1..page[2] |-> page[2 + i]]]

\* DataAccessLayer::updateMeta: page 0 as it is after writePage.
updateMeta(d, meta) == [d EXCEPT !.meta = serializeMeta(meta)]

\* DataAccessLayer::updateFreeList on the file d: an exception of serialize
\* is caught and logged, the page and is_dirty_ stay.
WriteFreeList(d, meta, free_list) ==
  IF meta.free_list_page_ = 0 \/ ~free_list.is_dirty_
  THEN [disk |-> d, fl |-> free_list]
  ELSE With(serializeFreeList(free_list), LAMBDA s :
         IF s.result # "ok"
         THEN [disk |-> d, fl |-> free_list]
         ELSE [disk |-> [d EXCEPT !.free_list = s.page],
               fl   |-> Clean(free_list)])

\* neversql.db after createDB.
DiskNew ==
  [meta      |-> serializeMeta([MetaNew EXCEPT !.free_list_page_ = 1]),
   free_list |-> serializeFreeList(
                   [FreeListDefault EXCEPT !.next_page_number_ = 2]).page]

(***************************************************************************)
(* DataManager: the DAL, the collection index and collections_.  The       *)
(* collection index is given by its entries (name, root page) in the order *)
(* in which they were added; they live on pages of the file.               *)
(***************************************************************************)
MaxManagerPage == 4        \* the manager model allocates up to this page

MaxManagerCalls == 4      \* calls on the database in a run

MaxFreed == 511            \* freed pages of the largest database the
                           \* manager model starts from

Names == {"elements", "people"}

\* The free list as it was when the database was closed (none yet).
NoClose == [next_page_number_ |-> NoPage, freed_pages_ |-> <<>>,
            index_page_ |-> NoPage]

IndexNames(index) == {index[i].name : i \in DOMAIN index}

\* DataManager::DataManager on a new directory: createDB, then the
\* collection index on the first new page and setIndexPage.  In the larger
\* databases pages 3, 4, ... were allocated and then released in that order.
ManagerInit ==
  \E n \in {0, MaxFreed} :
    /\ free_list_ = [FreeListDefault EXCEPT
                       !.next_page_number_ = n + 3,
                       !.freed_pages_ = [i \in 1..n |-> i + 2],
                       !.is_dirty_ = TRUE]
    /\ file_pages = n + 3
    /\ live = {0, 1, 2}
    /\ released = [i \in 1..n |-> i + 2]
    /\ dalOp = [op |-> "createDB", arg |-> NoPage, result |-> NoPage,
                freed |-> <<>>, before |-> <<>>]
    /\ meta_ = [MetaNew EXCEPT !.free_list_page_ = 1, !.index_page_ = 2]
    /\ disk = updateMeta(DiskNew, meta_)
    /\ manager = [is_open |-> TRUE, collection_index_ |-> <<>>,
                  collections_ |-> <<>>]
    /\ managerOp = [op |-> "DataManager", arg |-> NoPage, result |-> "ok",
                    at_close |-> NoClose, calls |-> 0]

\* No DataManager: the DataAccessLayer alone, after createDB.
ManagerNone ==
  /\ meta_ = [MetaNew EXCEPT !.free_list_page_ = 1]
  /\ disk = DiskNew
  /\ manager = [is_open |-> FALSE, collection_index_ |-> <<>>,
                collections_ |-> <<>>]
  /\ managerOp = [op |-> "none", arg |-> NoPage, result |-> "ok",
                  at_close |-> NoClose, calls |-> 0]

\* The allocation can go on while the model's page numbers last.
ManagerCanAllocate ==
  \/ free_list_.freed_pages_ = <<>>
       /\ free_list_.next_page_number_ <= MaxManagerPage
  \/ free_list_.freed_pages_ # <<>>
       /\ Len(free_list_.freed_pages_) <= MaxManagerPage

\* DataAccessLayer::GetNewPage of the open database.
AllocatePage ==
  /\ manager.is_open
  /\ managerOp.calls < MaxManagerCalls
  /\ ManagerCanAllocate
  /\ DalGetNewPage
  /\ managerOp' = [op |-> "GetNewPage", arg |-> NoPage, result |-> "ok",
                   at_close |-> NoClose, calls |-> managerOp.calls + 1]
  /\ UNCHANGED <<meta_, disk, manager, notManagerVars>>

\* DataAccessLayer::ReleasePage of the open database.
FreePage(page_number) ==
  /\ manager.is_open
  /\ managerOp.calls < MaxManagerCalls
  /\ DalReleasePage(page_number)
  /\ managerOp' = [op |-> "ReleasePage", arg |-> page_number,
                   result |-> "ok", at_close |-> NoClose,
                   calls |-> managerOp.calls + 1]
  /\ UNCHANGED <<meta_, disk, manager, notManagerVars>>

\* DataManager::AddCollection: a new tree, its root page under the name in
\* the collection index (AddValue asserts on a key that is there), then
\* collections_.emplace.
AddCollection(collection_name) ==
  \E page_number \in {GetNextPage(free_list_).result} :
     /\ manager.is_open
     /\ managerOp.calls < MaxManagerCalls
     /\ ManagerCanAllocate
     /\ DalGetNewPage
     /\ IF collection_name \in IndexNames(manager.collection_index_)
        THEN /\ manager' = manager
             /\ managerOp' = [op |-> "AddCollection", arg |-> page_number,
                              result |-> "AssertFailed",
                              at_close |-> NoClose,
                              calls |-> managerOp.calls + 1]
        ELSE /\ manager' =
                  [manager EXCEPT
                     !.collection_index_ =
                        Append(@, [name |-> collection_name,
                                   page |-> page_number]),
                     !.collections_ =
                        IF collection_name \in DOMAIN @
                        THEN @
                        ELSE MapPut(@, collection_name, page_number)]
             /\ managerOp' = [op |-> "AddCollection", arg |-> page_number,
                              result |-> "ok", at_close |-> NoClose,
                              calls |-> managerOp.calls + 1]
     /\ UNCHANGED <<meta_, disk, notManagerVars>>

\* DataAccessLayer::readPage, as GetPage (safe_mode) and as openDB calls it.
ReadPage(page_number, safe_mode) ==
  /\ manager.is_open
  /\ managerOp.calls < MaxManagerCalls
  /\ managerOp' = [op |-> IF safe_mode THEN "readPage" ELSE "readPageUnsafe",
                   arg |-> page_number,
                   result |-> IF safe_mode
                                   /\ ~(page_number
                                          < GetNumAllocatedPages(free_list_))
                              THEN "RequireFailed"
                              ELSE "ok",
                   at_close |-> NoClose, calls |-> managerOp.calls + 1]
  /\ UNCHANGED <<meta_, disk, manager, dalVars, notManagerVars>>

\* ~DataManager: the trees and the cache go, then ~DataAccessLayer writes
\* the meta and the free list.
CloseDatabase ==
  \E w \in {WriteFreeList(updateMeta(disk, meta_), meta_, free_list_)} :
     /\ manager.is_open
     /\ managerOp.calls < MaxManagerCalls
     /\ disk' = w.disk
     /\ free_list_' = FreeListDefault
     /\ meta_' = MetaNew
     /\ manager' = [manager EXCEPT !.is_open = FALSE,
                                   !.collections_ = <<>>]
     /\ managerOp' = [op |-> "~DataManager", arg |-> NoPage, result |-> "ok",
                      calls |-> managerOp.calls + 1,
                      at_close |->
                        [next_page_number_ |-> free_list_.next_page_number_,
                         freed_pages_      |-> free_list_.freed_pages_,
                         index_page_       |-> meta_.index_page_]]
     /\ UNCHANGED <<file_pages, live, released, dalOp, notManagerVars>>

\* DataManager::DataManager on the directory of a closed database: openDB
\* reads the meta and the free list; the collection index is opened at
\* meta.GetIndexPage(), collections_ is left empty.
OpenDatabase ==
  \E m \in {deserializeMeta(disk.meta, meta_)} :
     /\ ~manager.is_open
     /\ managerOp.calls < MaxManagerCalls
     /\ meta_' = m.meta
     /\ free_list_' = IF m.result = "ok"
                      THEN deserializeFreeList(disk.free_list, free_list_)
                      ELSE free_list_
     /\ manager' = [manager EXCEPT !.is_open = (m.result = "ok")]
     /\ managerOp' = [op |-> "DataManager", arg |-> NoPage,
                      result |-> m.result,
                      at_close |-> managerOp.at_close,
                      calls |-> managerOp.calls + 1]
     /\ UNCHANGED <<disk, file_pages, live, released, dalOp,
                    notManagerVars>>

\* Exponents handed to Meta::Meta: 1 << page_size_power is an int shift,
\* defined for every exponent up to the bound.
MaxPageSizePower == 20

PageSizePowers == 0..MaxPageSizePower

MetaUnchanged ==
  UNCHANGED <<manager, dalVars, notManagerVars>>

\* Meta meta(page_size_power) taking the place of meta_: when the REQUIRE
\* throws there is no new object and meta_ is the one there was.
MetaConstruct(page_size_power) ==
  \E m \in {Meta(page_size_power)} :
     /\ meta_' = IF m.result = "ok" THEN m.meta ELSE meta_
     /\ managerOp' = [managerOp EXCEPT !.op = "Meta",
                                       !.arg = page_size_power,
                                       !.result = m.result]
     /\ UNCHANGED disk
     /\ MetaUnchanged

\* DataAccessLayer::updateMeta: serialize(page, meta_) and writePage.
MetaWrite ==
  /\ disk' = updateMeta(disk, meta_)
  /\ managerOp' = [managerOp EXCEPT !.op = "updateMeta",
                                    !.arg = meta_.page_size_power_,
                                    !.result = "ok"]
  /\ UNCHANGED meta_
  /\ MetaUnchanged

\* DataAccessLayer::openDB: deserialize(page, meta_) of page 0.
MetaRead ==
  \E m \in {deserializeMeta(disk.meta, meta_)} :
     /\ meta_' = m.meta
     /\ managerOp' = [managerOp EXCEPT !.op = "deserialize",
                                       !.arg = disk.meta[2],
                                       !.result = m.result]
     /\ UNCHANGED disk
     /\ MetaUnchanged

(***************************************************************************)
(* The callers of the WriteAheadLog.  RCPage::writeToPage calls Update     *)
(* with the page's transaction number (0); a transaction is BeginTransation,*)
(* its updates and CommitTransation, one transaction at a time.            *)
(***************************************************************************)
MaxWalUpdates == 3         \* Update calls in a run

MaxTransactions == 1       \* transactions begun in a run

\* data.size() of a write: one byte up to a whole page.
WalSizes == {1, 4056, DefaultPageSize}

WalPages == {0, 1}

Last(s) == s[Len(s)]

WalOpInit ==
  walOp = [op |-> "WriteAheadLog", appended |-> <<>>, writes |-> <<>>,
           open |-> 0, transactions |-> 0]

LogBegin ==
  \E transaction_id \in {walOp.transactions + 1} :
  \E w \in {BeginTransation(wal_, transaction_id)} :
     /\ walOp.open = 0
     /\ walOp.transactions < MaxTransactions
     /\ wal_' = w
     /\ walOp' = [walOp EXCEPT !.op = "BeginTransation",
                               !.appended = Append(@, Last(w.buffer_)),
                               !.open = transaction_id,
                               !.transactions = transaction_id]
     /\ UNCHANGED <<page_cache, handles, last_update, closed, cacheOp>>
     /\ UNCHANGED <<docOp, readers, unitVars, dalVars, treeVars,
                  managerVars>>

LogUpdate(page_number, size, mode) ==
  \E w \in {Update(wal_, walOp.open, page_number, size, mode)} :
     /\ Len(walOp.writes) < MaxWalUpdates
     /\ wal_' = w
     /\ walOp' = [walOp EXCEPT !.op = "Update",
                               !.appended = Append(@, Last(w.buffer_)),
                               !.writes = Append(@, Last(w.buffer_))]
     /\ UNCHANGED <<page_cache, handles, last_update, closed, cacheOp>>
     /\ UNCHANGED <<docOp, readers, unitVars, dalVars, treeVars,
                  managerVars>>

LogCommit ==
  \E w \in {CommitTransation(wal_, walOp.open)} :
     /\ walOp.open # 0
     /\ wal_' = w
     /\ walOp' = [walOp EXCEPT !.op = "CommitTransation",
                               !.appended = Append(@, Last(w.buffer_)),
                               !.open = 0]
     /\ UNCHANGED <<page_cache, handles, last_update, closed, cacheOp>>
     /\ UNCHANGED <<docOp, readers, unitVars, dalVars, treeVars,
                  managerVars>>

LogFlush(mode) ==
  /\ wal_.buffer_ # <<>>
  /\ wal_' = Flush(wal_, mode)
  /\ walOp' = [walOp EXCEPT !.op = "Flush"]
  /\ UNCHANGED <<page_cache, handles, last_update, closed, cacheOp>>
  /\ UNCHANGED <<docOp, readers, unitVars, dalVars, treeVars,
                  managerVars>>

(***************************************************************************)
(* Documents.  A DocumentValue is a record with its type_ and its members; *)
(* a buffer is a sequence of bytes; a std::string is the sequence of its   *)
(* characters and a double the sequence of its eight bytes.  Integral      *)
(* values of the model fit in 31 bits and a sign.                          *)
(***************************************************************************)
\* enum class DataTypeEnum : int8_t.
DataTypeEnum ==
  [Null |-> 0, Double |-> 1, String |-> 2, Document |-> 3, Array |-> 4,
   BinaryData |-> 5, Boolean |-> 6, DateTime |-> 7, Int32 |-> 8,
   Int64 |-> 9, UInt64 |-> 10]

\* sizeof(Integral_t) of the IntegralValue with the type.
SizeOf(type) == IF type = "Int32" THEN 4 ELSE 8

\* internal::SpanValue(value) of an integer of size bytes: the bytes of its
\* two's complement, the lowest first.
SpanOfInteger(value, size) ==
  [i \in 1..size |->
     IF i = 1 THEN value % 256
     ELSE IF i = 2 THEN (value \div 256) % 256
     ELSE IF i = 3 THEN (value \div 65536) % 256
     ELSE IF i = 4 THEN (value \div 16777216) % 256
     ELSE IF value < 0 THEN 255 ELSE 0]

\* std::memcpy(&value, buffer.data(), size) into an integer: the integer
\* whose two's complement the first size bytes are.
IntegerOfSpan(buffer, size) ==
  buffer[1] + 256 * buffer[2]
    + (IF size > 2
       THEN 65536 * buffer[3]
              + 16777216 * (IF buffer[4] < 128 THEN buffer[4]
                            ELSE buffer[4] - 256)
       ELSE 0)

\* buffer.subspan(n).
subspan(buffer, n) == SubSeq(buffer, n + 1, Len(buffer))

RECURSIVE writeData(_)
RECURSIVE writeValues(_, _)
RECURSIVE writeElements(_, _)

\* DocumentValue::WriteToBuffer(buffer, write_enum): what it appends.
WriteToBuffer(value, write_enum) ==
  (IF write_enum THEN <<DataTypeEnum[value.type_]>> ELSE <<>>)
    \o writeData(value)

\* The for loop of ArrayValue::writeData from the i-th value on.
writeValues(values_, i) ==
  IF i > Len(values_) THEN <<>>
  ELSE WriteToBuffer(values_[i], FALSE) \o writeValues(values_, i + 1)

\* The for loop of Document::writeData from the i-th element on.
writeElements(elements_, i) ==
  IF i > Len(elements_) THEN <<>>
  ELSE SpanOfInteger(Len(elements_[i][1]), 2) \o elements_[i][1]
         \o WriteToBuffer(elements_[i][2], TRUE)
         \o writeElements(elements_, i + 1)

\* writeData of DoubleValue, IntegralValue, BooleanValue, StringValue,
\* ArrayValue and Document.
writeData(value) ==
  IF value.type_ = "Double"
  THEN value.value_
  ELSE IF value.type_ \in {"Int32", "Int64", "UInt64"}
  THEN SpanOfInteger(value.value_, SizeOf(value.type_))
  ELSE IF value.type_ = "Boolean"
  THEN <<IF value.value_ THEN 1 ELSE 0>>
  ELSE IF value.type_ = "String"
  THEN SpanOfInteger(Len(value.value_), 4) \o value.value_
  ELSE IF value.type_ = "Array"
  THEN <<DataTypeEnum[value.element_type_]>>
         \o SpanOfInteger(Len(value.values_), 4)
         \o writeValues(value.values_, 1)
  ELSE SpanOfInteger(Len(value.elements_), 8)
         \o writeElements(value.elements_, 1)

\* makeDocumentValue(data_type): the type_ of the value it makes, or Fail
\* where it reaches NOSQL_FAIL("unknown data type").
makeDocumentValue(data_type) ==
  IF data_type = DataTypeEnum.Int32 THEN "Int32"
  ELSE IF data_type = DataTypeEnum.Int64 THEN "Int64"
  ELSE IF data_type = DataTypeEnum.UInt64 THEN "UInt64"
  ELSE IF data_type = DataTypeEnum.Boolean THEN "Boolean"
  ELSE IF data_type = DataTypeEnum.String THEN "String"
  ELSE IF data_type = DataTypeEnum.Document THEN "Document"
  ELSE IF data_type = DataTypeEnum.Array THEN "Array"
  ELSE "Fail"

NoValue == [type_ |-> "Null"]

RECURSIVE initializeFromBuffer(_, _)
RECURSIVE readValues(_, _, _, _)
RECURSIVE readElements(_, _, _)

\* The for loop of ArrayValue::initializeFromBuffer with n elements to
\* come: values_ and the rest of the buffer.
readValues(element_type_, n, buffer, values_) ==
  IF n = 0
  THEN [r |-> "ok", values_ |-> values_, buffer |-> buffer]
  ELSE IF makeDocumentValue(element_type_) = "Fail"
  THEN [r |-> "Fail", values_ |-> values_, buffer |-> buffer]
  ELSE
    With(initializeFromBuffer(makeDocumentValue(element_type_), buffer),
         LAMBDA v :
      IF v.r # "ok"
      THEN [r |-> v.r, values_ |-> values_, buffer |-> v.buffer]
      ELSE readValues(element_type_, n - 1, v.buffer,
                      Append(values_, v.value)))

\* The for loop of Document::initializeFromBuffer with n elements to come.
readElements(n, buffer, elements_) ==
  IF n = 0
  THEN [r |-> "ok", elements_ |-> elements_, buffer |-> buffer]
  ELSE
    With(IntegerOfSpan(buffer, 2), LAMBDA name_size :
      With(subspan(buffer, 2 + name_size), LAMBDA at_type :
        IF makeDocumentValue(at_type[1]) = "Fail"
        THEN [r |-> "Fail", elements_ |-> elements_, buffer |-> at_type]
        ELSE
          With(initializeFromBuffer(makeDocumentValue(at_type[1]),
                                    subspan(at_type, 1)),
               LAMBDA v :
            IF v.r # "ok"
            THEN [r |-> v.r, elements_ |-> elements_, buffer |-> v.buffer]
            ELSE readElements(n - 1, v.buffer,
                   Append(elements_,
                          <<SubSeq(buffer, 3, 2 + name_size), v.value>>)))))

\* DocumentValue::InitializeFromBuffer(buffer) of a value made with the
\* type: the value and the buffer shrunk by what was read.
initializeFromBuffer(type_, buffer) ==
  IF type_ \in {"Int32", "Int64", "UInt64"}
  THEN [r |-> "ok",
        value |-> [type_ |-> type_,
                   value_ |-> IntegerOfSpan(buffer, SizeOf(type_))],
        buffer |-> subspan(buffer, SizeOf(type_))]
  ELSE IF type_ = "Boolean"
  THEN [r |-> "ok",
        value |-> [type_ |-> type_, value_ |-> buffer[1] # 0],
        buffer |-> subspan(buffer, 1)]
  ELSE IF type_ = "String"
  THEN [r |-> "ok",
        value |-> [type_ |-> type_,
                   value_ |-> SubSeq(buffer, 5,
                                     4 + IntegerOfSpan(buffer, 4))],
        buffer |-> subspan(buffer, 4 + IntegerOfSpan(buffer, 4))]
  ELSE IF type_ = "Array"
  THEN
    With(readValues(buffer[1], IntegerOfSpan(subspan(buffer, 1), 4),
                    subspan(buffer, 5), <<>>),
         LAMBDA a :
      [r |-> a.r,
       value |-> [type_ |-> type_,
                  element_type_ |->
                    CHOOSE e \in DOMAIN DataTypeEnum :
                      DataTypeEnum[e] = buffer[1],
                  values_ |-> a.values_],
       buffer |-> a.buffer])
  ELSE
    With(readElements(IntegerOfSpan(buffer, 8), subspan(buffer, 8), <<>>),
         LAMBDA d :
      [r |-> d.r,
       value |-> [type_ |-> type_, elements_ |-> d.elements_],
       buffer |-> d.buffer])

\* ReadDocumentFromBuffer(buffer, expect_enum): the document it returns.
ReadDocumentFromBuffer(buffer, expect_enum) ==
  IF buffer = <<>>
  THEN [r |-> "null", document |-> NoValue]
  ELSE IF expect_enum /\ buffer[1] # DataTypeEnum.Document
  THEN [r |-> "AssertFailed", document |-> NoValue]
  ELSE
    With(initializeFromBuffer("Document",
           IF expect_enum THEN subspan(buffer, 1) ELSE buffer),
         LAMBDA d :
      [r |-> d.r, document |-> IF d.r = "ok" THEN d.value ELSE NoValue])

MaxFields == 2              \* elements added to one document

MaxDepth == 2               \* documents inside documents

\* Values given to AddElement: one or two of every leaf type that has a
\* DocumentValue class, and arrays of them.  "hi" is <<104, 105>> and 1.5
\* is 0x3FF8000000000000.
ElementValues ==
  <<[type_ |-> "Int32", value_ |-> 42],
    [type_ |-> "Int32", value_ |-> -1],
    [type_ |-> "Int64", value_ |-> -2],
    [type_ |-> "UInt64", value_ |-> 70000],
    [type_ |-> "Boolean", value_ |-> TRUE],
    [type_ |-> "String", value_ |-> <<>>],
    [type_ |-> "String", value_ |-> <<104, 105>>],
    [type_ |-> "Double", value_ |-> <<0, 0, 0, 0, 0, 0, 248, 63>>],
    [type_ |-> "Array", element_type_ |-> "Int32", values_ |-> <<>>],
    [type_ |-> "Array", element_type_ |-> "Int32",
     values_ |-> <<[type_ |-> "Int32", value_ |-> 33],
                   [type_ |-> "Int32", value_ |-> -109]>>],
    [type_ |-> "Array", element_type_ |-> "String",
     values_ |-> <<[type_ |-> "String", value_ |-> <<104, 105>>]>>],
    [type_ |-> "Array", element_type_ |-> "Double",
     values_ |-> <<[type_ |-> "Double",
                    value_ |-> <<0, 0, 0, 0, 0, 0, 248, 63>>]>>]>>

\* The name of the i-th element of a document: "a", "bc", "def", ...
FieldName(i) == [j \in 1..i |-> 96 + (i * (i - 1)) \div 2 + j]

\* Document().
EmptyDocument == [type_ |-> "Document", elements_ |-> <<>>]

RECURSIVE Depth(_)

\* How deep documents lie inside the value.
Depth(value) ==
  IF value.type_ = "Document"
  THEN 1 + (IF value.elements_ = <<>> THEN 0
            ELSE Depth(value.elements_[1][2]))
  ELSE IF value.type_ = "Array" /\ value.values_ # <<>>
  THEN Depth(value.values_[1])
  ELSE 0

\* A Document under construction, nothing written yet.
DocInit ==
  docOp = [op |-> "Document", document |-> EmptyDocument, buffer |-> <<>>,
           read |-> [r |-> "none", document |-> NoValue]]

\* document.AddElement(name, value).
AddElement(value) ==
  /\ Len(docOp.document.elements_) < MaxFields
  /\ docOp' = [op |-> "AddElement",
               document |->
                 [docOp.document EXCEPT
                    !.elements_ =
                      Append(@, <<FieldName(Len(@) + 1), value>>)],
               buffer |-> <<>>,
               read |-> [r |-> "none", document |-> NoValue]]
  /\ UNCHANGED <<walOp, readers, unitVars, dalVars, cacheVars, treeVars,
               managerVars>>

\* The document becomes the first element of a new document, itself or as
\* the one value of an array of documents.
AddSubDocument(in_array) ==
  /\ docOp.document.elements_ # <<>>
  /\ Depth(docOp.document) < MaxDepth
  /\ docOp' = [op |-> "AddElement",
               document |->
                 [EmptyDocument EXCEPT
                    !.elements_ =
                      <<<<FieldName(1),
                          IF in_array
                          THEN [type_ |-> "Array",
                                element_type_ |-> "Document",
                                values_ |-> <<docOp.document>>]
                          ELSE docOp.document>>>>],
               buffer |-> <<>>,
               read |-> [r |-> "none", document |-> NoValue]]
  /\ UNCHANGED <<walOp, readers, unitVars, dalVars, cacheVars, treeVars,
               managerVars>>

\* WriteToBuffer(buffer, document) into an empty buffer.
WriteDocument ==
  /\ docOp.op = "AddElement"
  /\ docOp' = [docOp EXCEPT !.op = "WriteToBuffer",
                            !.buffer = WriteToBuffer(docOp.document, TRUE)]
  /\ UNCHANGED <<walOp, readers, unitVars, dalVars, cacheVars, treeVars,
               managerVars>>

\* ReadDocumentFromBuffer(written_data) of the buffer written.
ReadDocument ==
  /\ docOp.op = "WriteToBuffer"
  /\ docOp' = [docOp EXCEPT
                 !.op = "ReadDocumentFromBuffer",
                 !.read = ReadDocumentFromBuffer(docOp.buffer, TRUE)]
  /\ UNCHANGED <<walOp, readers, unitVars, dalVars, cacheVars, treeVars,
               managerVars>>

(***************************************************************************)
(* Readers: threads inside PageCache::GetPage and ~RCPage at the same      *)
(* time.  The cache takes no lock, so the statements of the threads        *)
(* interleave; ++usage_count and --usage_count are a read and a write.     *)
(* pc is where the thread stands, slot and usage_count its locals.         *)
(***************************************************************************)
NumReaders == 2             \* reader threads

MaxReadPage == 2            \* readers ask for pages 0..MaxReadPage

MaxReads == 2               \* GetPage calls of one thread

Threads == 1..NumReaders

\* A thread outside the cache, holding no page.
ReaderIdle ==
  [pc |-> "idle", page_number |-> NoPage, slot |-> NoPage,
   usage_count |-> 0, hit |-> FALSE, result |-> "ok", reads |-> 0]

\* The thread t outside the cache after a call that ended with the result.
Idle(t, result) ==
  [ReaderIdle EXCEPT !.result = result, !.reads = readers[t].reads]

ReadersInit == readers = [t \in Threads |-> ReaderIdle]

ReaderUnchanged ==
  UNCHANGED <<wal_, handles, last_update, closed, cacheOp, walOp, docOp,
              unitVars, dalVars, treeVars, managerVars>>

\* A thread calls GetPage(page_number).
ReaderCall(t, page_number) ==
  /\ readers[t].pc = "idle"
  /\ readers[t].reads < MaxReads
  /\ readers' = [readers EXCEPT
                   ![t] = [ReaderIdle EXCEPT !.pc = "find",
                                             !.page_number = page_number,
                                             !.reads = readers[t].reads + 1]]
  /\ UNCHANGED page_cache
  /\ ReaderUnchanged

\* page_number_to_slot_.find(page_number) of GetPage.
ReaderFind(t) ==
  /\ readers[t].pc = "find"
  /\ readers' =
       [readers EXCEPT
          ![t] = IF readers[t].page_number
                      \in DOMAIN page_cache.page_number_to_slot_
                 THEN [readers[t] EXCEPT
                         !.pc = "getPageFromSlot",
                         !.hit = TRUE,
                         !.slot = page_cache.page_number_to_slot_[
                                    readers[t].page_number]]
                 ELSE [readers[t] EXCEPT !.pc = "getSlot"]]
  /\ UNCHANGED page_cache
  /\ ReaderUnchanged

\* getSlot() of GetPage: a free slot, or the slot of an evicted page.
ReaderGetSlot(t) ==
  /\ readers[t].pc = "getSlot"
  /\ \E s \in {getSlot(page_cache)} :
       /\ page_cache' = s.c
       /\ readers' =
            [readers EXCEPT
               ![t] = IF s.result = "ok"
                      THEN [readers[t] EXCEPT !.pc = "initializePage",
                                              !.slot = s.slot]
                      ELSE Idle(t, s.result)]
  /\ ReaderUnchanged

\* initializePage(slot, page_number) of GetPage.
ReaderInitializePage(t) ==
  /\ readers[t].pc = "initializePage"
  /\ \E i \in {initializePage(page_cache, readers[t].slot,
                              readers[t].page_number)} :
       /\ page_cache' = i.c
       /\ readers' =
            [readers EXCEPT
               ![t] = IF i.result = "ok"
                      THEN [readers[t] EXCEPT !.pc = "getPageFromSlot"]
                      ELSE Idle(t, i.result)]
  /\ ReaderUnchanged

\* getPageFromSlot(slot) up to the read of ++descriptor.usage_count: the
\* page gets the page number of the descriptor.
ReaderGetPageFromSlot(t) ==
  /\ readers[t].pc = "getPageFromSlot"
  /\ \E d \in {page_cache.page_descriptors_[readers[t].slot]} :
       readers' =
         [readers EXCEPT
            ![t] =
              IF ~d.valid
              THEN Idle(t, "RequireFailed")
              ELSE [readers[t] EXCEPT
                      !.pc = "increment",
                      !.result =
                        IF readers[t].hit
                             /\ d.page_number # readers[t].page_number
                        THEN "AssertFailed" ELSE "ok",
                      !.page_number =
                        IF readers[t].hit THEN d.page_number
                        ELSE readers[t].page_number,
                      !.usage_count = d.usage_count]]
  /\ UNCHANGED page_cache
  /\ ReaderUnchanged

\* The write of ++descriptor.usage_count and SetSecondChance(true); then
\* the assertion of GetPage on a page found in the cache, or the read of
\* the page from the DataAccessLayer.  A page that is not returned is
\* destroyed.
ReaderIncrement(t) ==
  /\ readers[t].pc = "increment"
  /\ page_cache' =
       [page_cache EXCEPT
          !.page_descriptors_[readers[t].slot].usage_count =
             (readers[t].usage_count + 1) % 256,
          !.page_descriptors_[readers[t].slot].second_chance = TRUE]
  /\ readers' =
       [readers EXCEPT
          ![t] = IF readers[t].hit
                 THEN [readers[t] EXCEPT
                         !.pc = IF readers[t].result = "ok" THEN "holding"
                                ELSE "release"]
                 ELSE IF readers[t].page_number
                           < GetNumAllocatedPages(free_list_)
                 THEN [readers[t] EXCEPT !.pc = "holding", !.result = "ok"]
                 ELSE [readers[t] EXCEPT !.pc = "release",
                                         !.result = "RequireFailed"]]
  /\ ReaderUnchanged

\* A thread lets go of its page.
ReaderDrop(t) ==
  /\ readers[t].pc = "holding"
  /\ readers' = [readers EXCEPT ![t].pc = "release"]
  /\ UNCHANGED page_cache
  /\ ReaderUnchanged

\* ~RCPage: PageCache::ReleasePage(page_number) up to the read of
\* --descriptor.usage_count in decrementUsage.
ReaderRelease(t) ==
  /\ readers[t].pc = "release"
  /\ readers' =
       [readers EXCEPT
          ![t] =
            IF readers[t].page_number
                 \notin DOMAIN page_cache.page_number_to_slot_
            THEN Idle(t, "Failed")
            ELSE
              With(page_cache.page_number_to_slot_[readers[t].page_number],
                   LAMBDA slot :
                IF /\ page_cache.page_descriptors_[slot].valid
                   /\ 0 < page_cache.page_descriptors_[slot].usage_count
                THEN [readers[t] EXCEPT
                        !.pc = "decrement",
                        !.slot = slot,
                        !.usage_count =
                          page_cache.page_descriptors_[slot].usage_count]
                ELSE Idle(t, readers[t].result))]
  /\ UNCHANGED page_cache
  /\ ReaderUnchanged

\* The write of --descriptor.usage_count.
ReaderDecrement(t) ==
  /\ readers[t].pc = "decrement"
  /\ page_cache' =
       [page_cache EXCEPT
          !.page_descriptors_[readers[t].slot].usage_count =
             readers[t].usage_count - 1]
  /\ readers' = [readers EXCEPT ![t] = Idle(t, readers[t].result)]
  /\ ReaderUnchanged

(***************************************************************************)
(* One cached page byte by byte.  frame.data_ is the page's buffer (the    *)
(* byte at offset o is data_[o + 1]), frame.entered the buffer as it was   *)
(* when the page entered the cache, frame.log the UPDATE records of the    *)
(* page with the bytes they carry.  The page is page 0, held through one   *)
(* handle.                                                                 *)
(***************************************************************************)
FrameSize == 4             \* page_size_ of the page followed byte by byte

MaxFrameWrites == 2        \* writeToPage calls in a run

ByteValues == {0, 1}

FramePage == 0

\* Page::GetSpan: num_elements bytes of the page from offset.
GetSpan(f, offset, num_elements) ==
  SubSeq(f.data_, offset + 1, offset + num_elements)

\* std::memcpy(data_ + offset, data.data(), data.size()).  When data is a
\* span of the same page that starts at source, below offset and less than
\* data.size() from it, the ranges overlap (undefined): a copy in
\* ascending order reads bytes it has already written.
Memcpy(data_, offset, data, source, mode) ==
  With(IF /\ source # NoPage
          /\ mode = "ascending"
          /\ offset - source \in 1..(Len(data) - 1)
       THEN [i \in 1..Len(data) |-> data[((i - 1) % (offset - source)) + 1]]
       ELSE data,
       LAMBDA copied :
    [i \in 1..Len(data_) |->
       IF i \in (offset + 1)..(offset + Len(data))
       THEN copied[i - offset]
       ELSE data_[i]])

\* RCPage::writeToPage that hands the WAL the bytes of the page as they
\* are after the copy.
writeToPageLoggedAfter(f, w, offset, data, source, omit_log, mode) ==
  IF ~(offset + Len(data) <= FrameSize)
  THEN [f |-> f, w |-> w, dirty |-> FALSE, r |-> "RequireFailed"]
  ELSE
    With([f EXCEPT !.data_ = Memcpy(@, offset, data, source, mode)],
         LAMBDA f1 :
      [f |-> IF omit_log THEN f1
             ELSE [f1 EXCEPT !.log = Append(@,
                     [lsn       |-> w.next_sequence_number_,
                      page      |-> FramePage,
                      offset    |-> offset,
                      old_bytes |-> GetSpan(f1, offset, Len(data)),
                      new_bytes |-> data])],
       w |-> IF omit_log THEN w
             ELSE Update(w, 0, FramePage, Len(data), "intact"),
       dirty |-> TRUE,
       r |-> "ok"])

\* RCPage::writeToPage(offset, data, omit_log); source is the offset of
\* data in this page when data is a span of it, NoPage otherwise.  The WAL
\* copies data_old and data_new into its buffer before the page changes.
writeToPage(f, w, offset, data, source, omit_log, mode) ==
  IF ~(offset + Len(data) <= FrameSize)
  THEN [f |-> f, w |-> w, dirty |-> FALSE, r |-> "RequireFailed"]
  ELSE
    [f |-> [f EXCEPT
              !.data_ = Memcpy(@, offset, data, source, mode),
              !.log = IF omit_log THEN @
                      ELSE Append(@,
                             [lsn       |-> w.next_sequence_number_,
                              page      |-> FramePage,
                              offset    |-> offset,
                              old_bytes |-> GetSpan(f, offset, Len(data)),
                              new_bytes |-> data])],
     w |-> IF omit_log THEN w
           ELSE Update(w, 0, FramePage, Len(data), "intact"),
     dirty |-> TRUE,
     r |-> "ok"]

\* Page::moveInPage(src_offset, dest_offset, size).
moveInPage(f, w, src_offset, dest_offset, size, mode) ==
  IF \/ ~(src_offset + size <= FrameSize)
     \/ ~(dest_offset + size <= FrameSize)
     \/ ~(src_offset < FrameSize)
  THEN [f |-> f, w |-> w, dirty |-> FALSE, r |-> "RequireFailed"]
  ELSE writeToPage(f, w, dest_offset, GetSpan(f, src_offset, size),
                   src_offset, FALSE, mode)

NoWrite ==
  [op |-> "none", offset |-> 0, data |-> <<>>, omit_log |-> FALSE,
   r |-> "ok", writes |-> 0, unlogged |-> 0]

FrameNone ==
  frame = [data_ |-> <<>>, entered |-> <<>>, log |-> <<>>, last |-> NoWrite]

\* The page has been read into a frame and one handle is out.
FrameLoaded ==
  /\ \E r \in {PageCacheGetPage(PageCacheNew, FramePage,
                                GetNumAllocatedPages(free_list_))} :
       /\ page_cache = r.c
       /\ handles = SetToBag({<<FramePage, r.slot>>})
       /\ cacheOp = [op |-> "GetPage", page |-> FramePage,
                     result |-> r.result, slot |-> r.slot,
                     evicted |-> NoPage, written |-> <<>>,
                     before |-> NoSnapshot]
  /\ wal_ = WalNew
  /\ last_update = [p \in PageNumbers |-> 0]
  /\ closed = FALSE
  /\ \E image \in [1..FrameSize -> ByteValues] :
       frame = [data_ |-> image, entered |-> image, log |-> <<>>,
                last |-> NoWrite]

\* What a call through the handle leaves behind.
FrameWritten(op, offset, data, omit_log, r) ==
  /\ frame' = [r.f EXCEPT
                 !.last = [op |-> op, offset |-> offset, data |-> data,
                           omit_log |-> omit_log, r |-> r.r,
                           writes |-> frame.last.writes + 1,
                           unlogged |-> frame.last.unlogged
                                          + (IF omit_log /\ r.r = "ok"
                                             THEN 1 ELSE 0)]]
  /\ wal_' = r.w
  /\ page_cache' = IF r.dirty
                   THEN SetDirty(page_cache, cacheOp.slot)
                   ELSE page_cache
  /\ UNCHANGED <<handles, last_update, closed, cacheOp, fixed_stack, store>>
  /\ UNCHANGED <<walOp, docOp, readers, dalVars, treeVars, managerVars>>

\* Transaction::WriteToPage(page, offset, data, omit_log).
FrameWrite(offset, data, omit_log) ==
  /\ frame.last.writes < MaxFrameWrites
  /\ FrameWritten("WriteToPage", offset, data, omit_log,
                  writeToPage(frame, wal_, offset, data, NoPage, omit_log,
                              "memmove"))

\* Transaction::MoveInPage(page, src_offset, dest_offset, size).
FrameMove(src_offset, dest_offset, size, mode) ==
  /\ frame.last.writes < MaxFrameWrites
  /\ FrameWritten("MoveInPage", dest_offset,
                  IF src_offset + size <= FrameSize
                  THEN GetSpan(frame, src_offset, size) ELSE <<>>,
                  FALSE,
                  moveInPage(frame, wal_, src_offset, dest_offset, size,
                             mode))

(***************************************************************************)
(* FixedStack<int, StackSize_v>.  buffer_[i] of the code is buffer_[i + 1] *)
(* here; an int that was never assigned is 0.                              *)
(***************************************************************************)
StackSize_v == 4           \* FixedStack<int, 4>

StackValues == {1, 2}

FixedStackNew == [buffer_ |-> [i \in 1..StackSize_v |-> 0], size_ |-> 0]

Empty(s) == s.size_ = 0

Full(s) == s.size_ = StackSize_v

\* FixedStack::Push that does not look whether the stack is full and
\* writes over the last element.
PushOnFull(s, value) ==
  [s EXCEPT !.buffer_[IF Full(s) THEN StackSize_v ELSE s.size_ + 1] = value,
            !.size_ = @ + 1]

\* FixedStack::Push(value).
FixedStackPush(s, value) ==
  IF ~Full(s)
  THEN [s EXCEPT !.buffer_[s.size_ + 1] = value, !.size_ = @ + 1]
  ELSE s

\* FixedStack::Pop(): buffer_[size_].~T() does nothing for an int.
FixedStackPop(s) ==
  IF ~Empty(s) THEN [s EXCEPT !.size_ = @ - 1] ELSE s

\* FixedStack::Top(): the std::optional it returns.
FixedStackTop(s) ==
  IF 0 < s.size_
  THEN [has_value |-> TRUE, value |-> s.buffer_[s.size_]]
  ELSE [has_value |-> FALSE, value |-> 0]

StackInit ==
  fixed_stack = [s |-> FixedStackNew, op |-> "FixedStack", size |-> 0,
                 top |-> FixedStackTop(FixedStackNew)]

StackUnchanged ==
  UNCHANGED <<frame, store, walOp, docOp, readers, dalVars, cacheVars,
              treeVars, managerVars>>

\* fixed_stack.Push(value); size is Size() before the call.
StackPush(value) ==
  /\ fixed_stack' = [fixed_stack EXCEPT
                       !.s = FixedStackPush(@, value),
                       !.op = "Push",
                       !.size = fixed_stack.s.size_]
  /\ StackUnchanged

StackPop ==
  /\ fixed_stack' = [fixed_stack EXCEPT
                       !.s = FixedStackPop(@),
                       !.op = "Pop",
                       !.size = fixed_stack.s.size_]
  /\ StackUnchanged

StackTop ==
  /\ fixed_stack' = [fixed_stack EXCEPT
                       !.op = "Top",
                       !.size = fixed_stack.s.size_,
                       !.top = FixedStackTop(fixed_stack.s)]
  /\ StackUnchanged

(***************************************************************************)
(* B-tree pages in the cache and in the file.  Of a page only the page     *)
(* number in its header is followed: store.frames[slot] for the bytes of   *)
(* a frame of the cache, store.file[page] for the page of neversql.db,     *)
(* NoPage where the bytes are not those of a B-tree page header.           *)
(***************************************************************************)
MaxStorePage == 4          \* newNodePage stops allocating past this page

StorePages == 0..MaxStorePage

StoreInit ==
  store = [frames |-> [s \in Slots |-> NoPage],
           file |-> [p \in StorePages |-> NoPage],
           initialized |-> {}]

\* DataAccessLayer::WriteBackPage that seeks one page short.
WriteBackPageShort(file, page_number, header) ==
  [file EXCEPT ![IF page_number = 0 THEN 0 ELSE page_number - 1] = header]

\* DataAccessLayer::WriteBackPage: the bytes of the frame go to
\* page_number * page size in the file.
WriteBackPage(file, page_number, header) ==
  [file EXCEPT ![page_number] = header]

\* PageCache::flushPage for the pages that a call wrote back: the dirty
\* page of the frame that was released.
flushPage(st, c, written, evicted) ==
  IF written = <<>> THEN st
  ELSE With(IF evicted # NoPage THEN evicted
            ELSE CHOOSE s \in Slots :
                   /\ c.page_descriptors_[s].valid
                   /\ c.page_descriptors_[s].page_number = written[1],
            LAMBDA slot :
         [st EXCEPT !.file = WriteBackPage(@, written[1], st.frames[slot])])

\* The sizes of the writes of BTreePageHeader::InitializePage: magic
\* number, page number, flags, reserved_start, free_end, free_begin.
HeaderWrites == <<8, 8, 1, 2, 2, 2>>

RECURSIVE LogWrites(_, _, _)

\* The UPDATE records of writes of these sizes to the page.
LogWrites(w, page_number, sizes) ==
  IF sizes = <<>> THEN w
  ELSE LogWrites(Update(w, 0, page_number, sizes[1], "intact"),
                 page_number, Tail(sizes))

\* BTreeManager::newNodePage: PageCache::GetNewPage, then the header is
\* written through the handle.
StoreNewNodePage ==
  \E s \in {getSlot(page_cache)},
     page_number \in {GetNextPage(free_list_).result} :
  \E i \in {initializePage(s.c, s.slot, page_number)},
     flushed \in {flushPage(store, page_cache, s.written, s.evicted)} :
     /\ ~closed
     /\ BagCardinality(handles) < MaxHandles
     /\ free_list_.next_page_number_ <= MaxStorePage
     /\ IF s.result # "ok"
        THEN /\ page_cache' = s.c
             /\ store' = flushed
             /\ cacheOp' = [op |-> "newNodePage", page |-> NoPage,
                            result |-> s.result, slot |-> NoPage,
                            evicted |-> s.evicted,
                            written |-> WriteBacks(s.written),
                            before |-> NoSnapshot]
             /\ UNCHANGED <<handles, wal_, last_update, dalVars>>
        ELSE IF i.result # "ok"
        THEN /\ DalGetNewPage
             /\ page_cache' = i.c
             /\ store' = flushed
             /\ cacheOp' = [op |-> "newNodePage", page |-> page_number,
                            result |-> i.result, slot |-> s.slot,
                            evicted |-> s.evicted,
                            written |-> WriteBacks(s.written),
                            before |-> NoSnapshot]
             /\ UNCHANGED <<handles, wal_, last_update>>
        ELSE /\ DalGetNewPage
             /\ page_cache' = SetDirty(i.c, s.slot)
             /\ handles' = handles (+) SetToBag({<<page_number, s.slot>>})
             /\ wal_' = LogWrites(wal_, page_number, HeaderWrites)
             /\ last_update' =
                  [last_update EXCEPT
                     ![page_number] = wal_.next_sequence_number_
                                        + Len(HeaderWrites) - 1]
             /\ store' = [flushed EXCEPT
                            !.frames[s.slot] = page_number,
                            !.initialized = @ \cup {page_number}]
             /\ cacheOp' = [op |-> "newNodePage", page |-> page_number,
                            result |-> "ok", slot |-> s.slot,
                            evicted |-> s.evicted,
                            written |-> WriteBacks(s.written),
                            before |-> NoSnapshot]
     /\ UNCHANGED <<closed, frame, fixed_stack>>
     /\ UNCHANGED <<walOp, docOp, readers, treeVars, managerVars>>

\* BTreeManager::loadNodePage(page_number) of an allocated page:
\* PageCache::GetPage, which reads the page from the file when it is not
\* cached, and the assertions on the header; the handle is dropped when
\* one fails.
StoreLoadNodePage(page_number) ==
  \E r \in {PageCacheGetPage(page_cache, page_number,
                             GetNumAllocatedPages(free_list_))} :
  \E flushed \in {flushPage(store, page_cache, r.written, r.evicted)} :
  \E read \in {IF /\ r.result = "ok"
                  /\ page_number \notin DOMAIN page_cache.page_number_to_slot_
               THEN [flushed EXCEPT
                       !.frames[r.slot] = flushed.file[page_number]]
               ELSE flushed} :
  \E header_ok \in {r.result = "ok" /\ read.frames[r.slot] = page_number} :
     /\ ~closed
     /\ BagCardinality(handles) < MaxHandles
     /\ page_number < GetNumAllocatedPages(free_list_)
     /\ page_cache' = IF r.result = "ok" /\ ~header_ok
                      THEN PageCacheReleasePage(r.c, page_number).c
                      ELSE r.c
     /\ handles' = IF header_ok
                   THEN handles (+) SetToBag({<<page_number, r.slot>>})
                   ELSE handles
     /\ store' = read
     /\ cacheOp' = [op |-> "loadNodePage", page |-> page_number,
                    result |-> IF r.result = "ok" /\ ~header_ok
                               THEN "AssertFailed" ELSE r.result,
                    slot |-> r.slot, evicted |-> r.evicted,
                    written |-> WriteBacks(r.written),
                    before |-> NoSnapshot]
     /\ UNCHANGED <<wal_, last_update, closed, frame, fixed_stack>>
     /\ UNCHANGED <<walOp, docOp, readers, dalVars, treeVars, managerVars>>

\* A database just created, with its cache: DataManager's members.
UnitInit == FrameNone /\ StackInit /\ StoreInit

OtherInit == WalOpInit /\ DocInit /\ ReadersInit /\ UnitInit

Init == DalInit /\ CacheInit /\ TreeInit /\ ManagerNone /\ OtherInit

CacheNext ==
  \/ \E page_number \in PageNumbers : GetPage(page_number)
  \/ GetNewPage
  \/ \E h \in BagToSet(handles) : NewHandle(h)
  \/ \E h \in BagToSet(handles) : DropHandle(h)
  \/ \E h \in BagToSet(handles), size \in WriteSizes, omit_log \in OmitLog :
       WriteToPage(h, size, omit_log)
  \/ Shutdown

SpecCache == Init /\ [][CacheNext]_vars

DalNext ==
  \/ getNewPage
  \/ \E page_number \in 0..(MaxPageNumber + 1) : releasePage(page_number)
  \/ updateFreeList

SpecDal == Init /\ [][DalNext]_vars

TreeNext ==
  \/ \E key \in Keys : \E doc \in Documents(key) : \E mode \in MemcpyModes :
       AddValue(key, doc, mode)
  \/ \E key \in Keys : Retrieve(key)
  \/ IterateCollection
  \/ Reopen

SpecTree == Init /\ [][TreeNext]_vars

\* A DataManager on a new directory, with its cache.
InitManager == ManagerInit /\ CacheInit /\ TreeInit /\ OtherInit

ManagerNext ==
  \/ AllocatePage
  \/ \E page_number \in 0..(MaxManagerPage + 1) : FreePage(page_number)
  \/ \E collection_name \in Names : AddCollection(collection_name)
  \/ \E page_number \in 0..(MaxManagerPage + 1), safe_mode \in BOOLEAN :
       ReadPage(page_number, safe_mode)
  \/ CloseDatabase
  \/ OpenDatabase

SpecManager == InitManager /\ [][ManagerNext]_vars

\* A Meta of every exponent the constructor accepts, written to page 0 and
\* read back.
InitMeta ==
  /\ DalInit /\ CacheInit /\ TreeInit /\ OtherInit
  /\ \E page_size_power \in PageSizePowers :
        /\ Meta(page_size_power).result = "ok"
        /\ meta_ = Meta(page_size_power).meta
        /\ managerOp = [op |-> "Meta", arg |-> page_size_power,
                        result |-> "ok", at_close |-> NoClose, calls |-> 0]
  /\ disk = DiskNew
  /\ manager = [is_open |-> FALSE, collection_index_ |-> <<>>,
                collections_ |-> <<>>]

MetaNext ==
  \/ \E page_size_power \in PageSizePowers : MetaConstruct(page_size_power)
  \/ MetaWrite
  \/ MetaRead

SpecMeta == InitMeta /\ [][MetaNext]_vars

\* The WriteAheadLog as the repository uses it: RCPage::writeToPage and the
\* flush of ~WriteAheadLog.
UpdatesNext ==
  \/ \E page_number \in WalPages, size \in WalSizes, mode \in OverflowModes :
       LogUpdate(page_number, size, mode)
  \/ \E mode \in OverflowModes : LogFlush(mode)

SpecUpdates == Init /\ [][UpdatesNext]_vars

\* The WriteAheadLog with transactions.
WalNext ==
  \/ LogBegin
  \/ \E page_number \in WalPages, size \in WalSizes, mode \in OverflowModes :
       LogUpdate(page_number, size, mode)
  \/ LogCommit
  \/ \E mode \in OverflowModes : LogFlush(mode)

SpecWal == Init /\ [][WalNext]_vars

\* The collection with queries run over it.
QueryNext ==
  \/ \E key \in Keys : \E doc \in Documents(key) : \E mode \in MemcpyModes :
       AddValue(key, doc, mode)
  \/ \E condition \in Conditions : QueryCollection(condition)

SpecQuery == Init /\ [][QueryNext]_vars

\* Documents built, written to a buffer and read back.
DocumentNext ==
  \/ \E i \in DOMAIN ElementValues : AddElement(ElementValues[i])
  \/ \E in_array \in BOOLEAN : AddSubDocument(in_array)
  \/ WriteDocument
  \/ ReadDocument

SpecDocument == Init /\ [][DocumentNext]_vars

MaxHeld == 2                \* the largest word a frame held before

\* A collection created in a frame of the cache that held another page
\* before: the last word of that page is a number up to MaxHeld.
InitAuto ==
  /\ \E held \in 0..MaxHeld : tree = CreateNewBTree(held)
  /\ stored = <<>>
  /\ chains = {}
  /\ calls = 0
  /\ treeOp = [op |-> "CreateNewBTree", key |-> 0,
               doc |-> [id |-> 0, size |-> 0], r |-> "ok",
               before |-> {}, visited |-> <<>>]
  /\ DalInit /\ CacheInit /\ ManagerNone /\ OtherInit

\* Documents added to the collection without a key.
AutoNext ==
  \/ \E doc \in Documents(calls + 1) : \E mode \in MemcpyModes :
       AddValueAuto(doc, mode)
  \/ Reopen

SpecAuto == InitAuto /\ [][AutoNext]_vars

\* A collection that a loop filled, and one more document with a key
\* behind those of the loop.
DeepKeys == {MaxInserts + 1, MaxInserts + 2}

DeepNext ==
  \/ \E n \in 1..MaxInserts : \E mode \in MemcpyModes : InsertLoop(n, mode)
  \/ /\ treeOp.op = "InsertLoop"
     /\ \E key \in DeepKeys : \E doc \in Documents(key) :
        \E mode \in MemcpyModes : AddValue(key, doc, mode)

SpecDeep == Init /\ [][DeepNext]_vars

MaxReleases == 2            \* pages given back to the DAL in a run

\* DataAccessLayer::ReleasePage(page) for the page of a live handle: the
\* DAL puts the page number in its free list, the cache is not told.
ReleaseHeld(h) ==
  /\ ~closed
  /\ Len(released) < MaxReleases
  /\ releasePage(h[1])

\* A cache over a DAL whose pages are read, allocated and given back.
RecycleNext ==
  \/ \E page_number \in PageNumbers :
       page_number < GetNumAllocatedPages(free_list_) /\ GetPage(page_number)
  \/ GetNewPage
  \/ \E h \in BagToSet(handles) : DropHandle(h)
  \/ \E h \in BagToSet(handles) : ReleaseHeld(h)

SpecRecycle == Init /\ [][RecycleNext]_vars

\* One page held through a handle and written byte by byte.
InitFrame ==
  /\ DalInit /\ FrameLoaded /\ TreeInit /\ ManagerNone
  /\ WalOpInit /\ DocInit /\ ReadersInit /\ StackInit /\ StoreInit

FrameOffsets == 0..FrameSize

FrameData == UNION {[1..n -> ByteValues] : n \in 1..2}

FrameNext ==
  \/ \E offset \in FrameOffsets, data \in FrameData, omit_log \in BOOLEAN :
       FrameWrite(offset, data, omit_log)
  \/ \E src_offset \in FrameOffsets, dest_offset \in FrameOffsets,
        size \in 1..FrameSize, mode \in MemcpyModes :
       FrameMove(src_offset, dest_offset, size, mode)

SpecFrame == InitFrame /\ [][FrameNext]_vars

\* A FixedStack and the calls of its interface.
StackNext ==
  \/ \E value \in StackValues : StackPush(value)
  \/ StackPop
  \/ StackTop

SpecStack == Init /\ [][StackNext]_vars

\* B-tree pages that are allocated, evicted and loaded again.
InitStore ==
  /\ DalInit /\ TreeInit /\ ManagerNone
  /\ WalOpInit /\ DocInit /\ ReadersInit /\ FrameNone /\ StackInit
  /\ StoreInit
  /\ page_cache = PageCacheNew
  /\ wal_ = WalNew
  /\ handles = EmptyBag
  /\ last_update = [p \in StorePages |-> 0]
  /\ closed = FALSE
  /\ cacheOp = [op |-> "PageCache", page |-> NoPage, result |-> "ok",
                slot |-> NoPage, evicted |-> NoPage, written |-> <<>>,
                before |-> NoSnapshot]

StoreNext ==
  \/ StoreNewNodePage
  \/ \E page_number \in StorePages : StoreLoadNodePage(page_number)
  \/ \E h \in BagToSet(handles) : DropHandle(h)

SpecStore == InitStore /\ [][StoreNext]_vars

\* Documents whose overflow chains leave an overflow page nearly full.
TightDocumentSize == 422    \* bytes of a document after which 27 bytes are
                            \* left for an entry in its overflow page

ChainSizes == {TightDocumentSize, LargeDocumentSize}

ChainNext ==
  \E key \in Keys : \E size \in ChainSizes : \E mode \in MemcpyModes :
    AddValue(key, [id |-> key, size |-> size], mode)

SpecChain == Init /\ [][ChainNext]_vars

\* A new database: its collection index as collections are added, or its
\* first collection as documents are added.
InitDatabase ==
  /\ IndexInit \/ TreeInit
  /\ DalInit /\ CacheInit /\ ManagerNone /\ OtherInit

DatabaseNext ==
  \/ \E k \in 1..MaxNames : \E key_type \in KeyTypes :
     \E mode \in MemcpyModes : AddCollectionIndexed(k, key_type, mode)
  \/ /\ tree.root_page_ = RootPage
     /\ \E key \in Keys : \E doc \in Documents(key) :
        \E mode \in MemcpyModes : AddValue(key, doc, mode)

SpecDatabase == InitDatabase /\ [][DatabaseNext]_vars

\* Threads that read pages of an open database through its cache.
ReadersNext ==
  \E t \in Threads :
    \/ \E page_number \in 0..MaxReadPage : ReaderCall(t, page_number)
    \/ ReaderFind(t)
    \/ ReaderGetSlot(t)
    \/ ReaderInitializePage(t)
    \/ ReaderGetPageFromSlot(t)
    \/ ReaderIncrement(t)
    \/ ReaderDrop(t)
    \/ ReaderRelease(t)
    \/ ReaderDecrement(t)

SpecReaders == InitManager /\ [][ReadersNext]_vars

(***************************************************************************)
(* The claims about the collection.                                        *)
(***************************************************************************)
\* Every AddValue so far returned and brought a key of its own.
DistinctSuccessfulInserts == Cardinality(DOMAIN stored) = calls

LiveKeys(t) == {cell.key : cell \in Contents(t)}

Ascending(keys) ==
  \A i \in 1..(Len(keys) - 1) : cmp_(keys[i], keys[i + 1])

\* The caller of AddValue learns that nothing was inserted: a false
\* result, or the assertion on the false result of addElementToNode.
NotInserted(r) == r \in {"false", "AssertFailed"}

\* C1: after successful inserts with pairwise distinct keys, in any order
\* and through any splits, retrieve(k) of an inserted key k returns the
\* document that was inserted under k.
C1_RetrieveReturnsInserted ==
  (/\ treeOp.op = "retrieve"
   /\ DistinctSuccessfulInserts
   /\ treeOp.key \in DOMAIN stored)
    => (treeOp.r = "found" /\ treeOp.doc = stored[treeOp.key])

\* C2: iterating from begin() to end() visits each live leaf cell exactly
\* once, in ascending key order, and reaches end(), whatever inserts
\* shaped the tree.
C2_IterationInOrder ==
  (treeOp.op = "iterate" /\ DistinctSuccessfulInserts)
    => /\ treeOp.r = "ok"
       /\ Ascending([i \in DOMAIN treeOp.visited |-> treeOp.visited[i].key])
       /\ {treeOp.visited[i].key : i \in DOMAIN treeOp.visited}
            = LiveKeys(tree)

\* C3: retrieve(k) of a key that is not stored returns an empty result:
\* no error, and no entry of another key.
C3_MissingKeyIsEmpty ==
  (/\ treeOp.op = "retrieve"
   /\ SpanValue(treeOp.key) \notin LiveKeys(tree))
    => treeOp.r = "empty"

\* C4: inserting a key that already exists is answered with "not
\* inserted", and the collection holds the same keys with the same values
\* as before the call, whether or not the leaf was full.
C4_DuplicateKeyRejected ==
  (/\ treeOp.op = "AddValue"
   /\ SpanValue(treeOp.key) \in {cell.key : cell \in treeOp.before})
    => (NotInserted(treeOp.r) /\ Contents(tree) = treeOp.before)

\* C5: for every payload written through the overflow path, following
\* the chain from the overflow header and concatenating the chunks yields
\* exactly the payload; the chain visits no page twice and ends at a
\* chunk whose next_page is 0.
C5_OverflowChainsSpellPayload ==
  \A chain \in chains :
    With(OverflowEntryRead(tree, chain.overflow_key, chain.page_number,
                           <<>>, <<>>),
         LAMBDA o :
      /\ o.r = "ok"
      /\ Spells(o.pieces, chain.doc)
      /\ NoDuplicates(o.pages)
      /\ o.pieces[Len(o.pieces)].next_page = 0)

\* A payload went through the overflow path and its chain is on more
\* than one page.
C5_Witness ==
  \E chain \in chains :
    Len(OverflowEntryRead(tree, chain.overflow_key, chain.page_number,
                          <<>>, <<>>).pages) > 1

(***************************************************************************)
(* C9: after any sequence of allocations and releases no page number is    *)
(* twice in the free list, no page is both in the free list and live, and  *)
(* releasing a page that is already in the free list leaves the list as    *)
(* it was.                                                                 *)
(***************************************************************************)
C9_FreeListSound ==
  /\ NoDuplicates(free_list_.freed_pages_)
  /\ \A p \in live : ~Contains(free_list_.freed_pages_, p)
  /\ (dalOp.op = "releasePage" /\ Contains(dalOp.freed, dalOp.arg))
       => free_list_.freed_pages_ = dalOp.freed

C9_Witness ==
  /\ dalOp.op = "releasePage"
  /\ dalOp.result = "false"
  /\ Len(free_list_.freed_pages_) >= 2
  /\ live # {}

(***************************************************************************)
(* C10: a freed page is handed out again in the order in which the pages   *)
(* were freed (the longest-freed page first), and a new high-water page    *)
(* number is assigned only when no freed page is left.                     *)
(***************************************************************************)
C10_FifoReuse ==
  dalOp.op = "getNewPage" =>
    /\ dalOp.before # <<>> => dalOp.result = Head(dalOp.before)
    /\ dalOp.result = free_list_.next_page_number_ - 1
         /\ ~Contains(dalOp.before, dalOp.result)
         => dalOp.before = <<>>

C10_Witness ==
  /\ dalOp.op = "getNewPage"
  /\ Len(dalOp.before) >= 2
  /\ dalOp.result = Head(dalOp.before)
  /\ dalOp.before[1] > dalOp.before[2]

(***************************************************************************)
(* C6: a dirty page is written back to the data file (by an eviction or    *)
(* by the shutdown of the cache) only when every UPDATE record of the      *)
(* writes to that page is already in the log file.                         *)
(***************************************************************************)
C6_WalBeforeData ==
  \A k \in DOMAIN cacheOp.written :
    cacheOp.written[k].lsn <= cacheOp.written[k].durable

\* The live handles to a page.
HandlesTo(page_number) ==
  BagCardinality([h \in {x \in BagToSet(handles) : x[1] = page_number}
                    |-> handles[h]])

(***************************************************************************)
(* C7: every page handle pins its frame: the usage count of a frame is     *)
(* the number of live handles to its page, dropping a handle never fails,  *)
(* and the frame a live handle refers to still holds the handle's page.    *)
(***************************************************************************)
C7_HandlesPinFrames ==
  /\ \A s \in Slots :
       LET d == page_cache.page_descriptors_[s]
       IN d.valid => d.usage_count = HandlesTo(d.page_number)
  /\ cacheOp.op = "DropHandle" => cacheOp.result = "ok"
  /\ \A h \in BagToSet(handles) :
       /\ page_cache.page_descriptors_[h[2]].valid
       /\ page_cache.page_descriptors_[h[2]].page_number = h[1]

\* The victim of the stated policy: from the clock hand on, a frame whose
\* second-chance bit is set loses the bit and is passed; the first frame met
\* with the bit clear and no usage is the victim.
RECURSIVE StatedVictim(_, _, _)
StatedVictim(descriptors, hand, steps) ==
  IF steps > 2 * CacheSize
  THEN NoPage
  ELSE IF ~descriptors[hand].second_chance
          /\ descriptors[hand].usage_count = 0
  THEN hand
  ELSE StatedVictim([descriptors EXCEPT ![hand].second_chance = FALSE],
                    (hand + 1) % CacheSize, steps + 1)

(***************************************************************************)
(* C8: when a slot has to be evicted, the call fails (cache exhausted)     *)
(* only if every frame is pinned; if some frame has usage 0 the call gets  *)
(* its slot and the evicted frame is the first one, from the clock hand,   *)
(* with second-chance clear and usage 0.                                   *)
(***************************************************************************)
C8_EvictionPolicy ==
  cacheOp.before # NoSnapshot =>
    LET descriptors == cacheOp.before.page_descriptors_
        unpinned == \E s \in Slots : descriptors[s].usage_count = 0
    IN /\ cacheOp.result = "CacheExhausted" => ~unpinned
       /\ unpinned =>
            /\ cacheOp.result # "CacheExhausted"
            /\ cacheOp.evicted
                 = StatedVictim(descriptors, cacheOp.before.next_victim_, 0)

(***************************************************************************)
(* The claims about the database as a whole.                               *)
(***************************************************************************)
\* C11: when a database is opened, every collection recorded in the
\* collection index is loaded under its name: after add_collection
\* ("elements"), close and re-open, the collections are exactly
\* {"elements"}.
C11_ReopenLoadsCollections ==
  (managerOp.op = "DataManager" /\ managerOp.result = "ok")
    => DOMAIN manager.collections_ = IndexNames(manager.collection_index_)

\* C12: after a close and a re-open the free list (the next high-water
\* page number and the sequence of freed pages) and the index page of the
\* meta are what they were at the moment of the close, whatever
\* allocations and releases came before it.
C12_ReopenRestoresFreeList ==
  (managerOp.op = "DataManager" /\ managerOp.at_close # NoClose)
    => /\ free_list_.next_page_number_ = managerOp.at_close.next_page_number_
       /\ free_list_.freed_pages_ = managerOp.at_close.freed_pages_
       /\ meta_.index_page_ = managerOp.at_close.index_page_

\* C15: a read of a page without the unsafe flag fails when the page is
\* not allocated: its number is at or beyond the high-water mark, or the
\* page has been freed and not allocated again.
C15_ReadOfUnallocatedPageFails ==
  (/\ managerOp.op = "readPage"
   /\ \/ ~(managerOp.arg < GetNumAllocatedPages(free_list_))
      \/ Contains(free_list_.freed_pages_, managerOp.arg))
    => managerOp.result = "RequireFailed"

\* C16: an allocation grows the file by exactly one page when the free
\* list is empty and leaves its length alone when it is not; after any
\* allocations and releases the file is as many pages long as the
\* high-water page count.
C16_FileGrowsWithHighWater ==
  /\ [](file_pages = GetNumAllocatedPages(free_list_))
  /\ [][dalOp'.op = "getNewPage" =>
          IF free_list_.freed_pages_ = <<>>
          THEN file_pages' = file_pages + 1
          ELSE file_pages' = file_pages]_vars

\* A page was handed out from the free list of a file that had grown.
C16_Witness ==
  /\ dalOp.op = "getNewPage"
  /\ dalOp.freed # <<>>
  /\ file_pages = MaxPageNumber + 1

(***************************************************************************)
(* The claims about the write-ahead log.                                   *)
(***************************************************************************)
UpdateRecords(records) == SelectSeq(records, LAMBDA r : r.type = "UPDATE")

\* C13: the LSNs given to UPDATE records start at 1 and strictly increase,
\* and the UPDATE records are in the WAL (the log file, then the buffer) in
\* the order in which the writes were made, each with its LSN and page.
C13_LsnsIncreaseInOrder ==
  /\ walOp.writes # <<>> => walOp.writes[1].lsn = 1
  /\ \A i \in 1..(Len(walOp.writes) - 1) :
       walOp.writes[i].lsn < walOp.writes[i + 1].lsn
  /\ With(UpdateRecords(wal_.log_file_ \o wal_.buffer_), LAMBDA inWal :
       /\ Len(inWal) = Len(walOp.writes)
       /\ \A i \in DOMAIN inWal :
            /\ inWal[i].lsn = walOp.writes[i].lsn
            /\ inWal[i].page = walOp.writes[i].page
            /\ ~inWal[i].torn)

\* Three writes were logged and a full buffer made Update flush.
C13_Witness ==
  /\ Len(walOp.writes) >= 3
  /\ walOp.op = "Update"
  /\ wal_.log_file_ # <<>>
  /\ wal_.buffer_ # <<>>

\* C14: the records reach the log file in exactly the order in which they
\* were appended, none lost and each of them whole; so a COMMIT record is
\* never in the file before the UPDATE records of its transaction.
C14_FileIsPrefixOfAppended ==
  /\ wal_.log_file_ \o wal_.buffer_ = walOp.appended
  /\ \A i \in DOMAIN wal_.log_file_ : wal_.log_file_[i] = walOp.appended[i]

\* C17: a query over the collection visits exactly the entries of the
\* iteration from begin() to end() whose document meets the condition, in
\* the order of that iteration, and ends as the iteration ends.
C17_QueryFiltersIteration ==
  treeOp.op = "query" =>
    /\ treeOp.r = Iterate(tree).r
    /\ treeOp.visited =
         SelectSeq(Iterate(tree).visited,
                   LAMBDA e : Test(treeOp.condition, e.doc))

\* A query that skipped an entry and kept one.
C17_Witness ==
  /\ treeOp.op = "query"
  /\ treeOp.r = "ok"
  /\ treeOp.visited # <<>>
  /\ Len(treeOp.visited) + 2 <= Len(Iterate(tree).visited)
  /\ treeOp.visited[Len(treeOp.visited)]
       # Iterate(tree).visited[Len(Iterate(tree).visited)]

\* C18: the document read back from the buffer a document was written to
\* equals that document, whatever the types of its elements and however
\* documents and arrays are nested in it.
C18_ReadReturnsWritten ==
  docOp.op = "ReadDocumentFromBuffer" =>
    /\ docOp.read.r = "ok"
    /\ docOp.read.document = docOp.document

\* C19: in a collection just created, the n-th document added without a
\* key is added under the key n - 1, whatever the frame of the root page
\* held before the collection was created.
C19_AutoKeysCountFromZero ==
  treeOp.op = "AddValueAuto" => treeOp.key = calls - 1

\* No thread is inside a call on the cache.
Quiescent == \A t \in Threads : readers[t].pc \in {"idle", "holding"}

\* The pages the threads hold that are in the slot.
HeldIn(slot) ==
  {t \in Threads : readers[t].pc = "holding" /\ readers[t].slot = slot}

\* C20: whenever the reader threads are all outside the cache, its frame
\* index names valid descriptors of the pages it maps, no two pages share
\* a slot, no page is in two slots, free slots hold no page and every
\* usage count is the number of pages held in the slot.
C20_ReadersKeepCacheConsistent ==
  Quiescent =>
    /\ \A p \in DOMAIN page_cache.page_number_to_slot_ :
         /\ page_cache.page_descriptors_[
              page_cache.page_number_to_slot_[p]].valid
         /\ page_cache.page_descriptors_[
              page_cache.page_number_to_slot_[p]].page_number = p
    /\ \A p, q \in DOMAIN page_cache.page_number_to_slot_ :
         page_cache.page_number_to_slot_[p]
           = page_cache.page_number_to_slot_[q] => p = q
    /\ \A s1, s2 \in Slots :
         (/\ page_cache.page_descriptors_[s1].valid
          /\ page_cache.page_descriptors_[s2].valid
          /\ page_cache.page_descriptors_[s1].page_number
               = page_cache.page_descriptors_[s2].page_number) => s1 = s2
    /\ NoDuplicates(page_cache.cache_free_list_.freed_pages_)
    /\ \A s \in Range(page_cache.cache_free_list_.freed_pages_) :
         ~page_cache.page_descriptors_[s].valid
    /\ \A s \in Slots :
         page_cache.page_descriptors_[s].valid =>
           page_cache.page_descriptors_[s].usage_count
             = Cardinality(HeldIn(s))

(***************************************************************************)
(* The shape of the tree: the child slots of a pointers page are the       *)
(* children of its cells, in order, and then additional_data.              *)
(***************************************************************************)
ChildSlots(n) ==
  [i \in 1..(Len(n.cells) + 1) |->
     IF i <= Len(n.cells) THEN n.cells[i].entry.page_number
     ELSE n.additional_data]

RECURSIVE NodesUnder(_, _, _)

\* The pages that are reached from the page through child slots, in at
\* most fuel steps.
NodesUnder(t, page_number, fuel) ==
  IF page_number \notin DOMAIN t.pages \/ fuel = 0
  THEN {}
  ELSE IF ~IsPointersPage(t.pages[page_number])
  THEN {page_number}
  ELSE {page_number}
       \cup UNION {NodesUnder(t, ChildSlots(t.pages[page_number])[i],
                              fuel - 1) :
                     i \in DOMAIN ChildSlots(t.pages[page_number])}

TreeNodes(t) == NodesUnder(t, t.root_page_, Cardinality(DOMAIN t.pages))

InteriorNodes(t) == {p \in TreeNodes(t) : IsPointersPage(t.pages[p])}

RECURSIVE LeafDepths(_, _, _)

\* The depths at which the leaves under the page are, the page being at
\* depth; -1 stands for a child slot that leads to no page.
LeafDepths(t, page_number, depth) ==
  IF page_number \notin DOMAIN t.pages
       \/ depth > Cardinality(DOMAIN t.pages)
  THEN {-1}
  ELSE IF ~IsPointersPage(t.pages[page_number])
  THEN {depth}
  ELSE UNION {LeafDepths(t, ChildSlots(t.pages[page_number])[i],
                         depth + 1) :
                i \in DOMAIN ChildSlots(t.pages[page_number])}

\* The height of the tree when all its leaves are at one depth.
Height(t) == CHOOSE d \in LeafDepths(t, t.root_page_, 1) : TRUE

\* The keys of the cells of the leaves under the page.
KeysUnder(t, page_number) ==
  UNION {{t.pages[p].cells[i].key : i \in 1..Len(t.pages[p].cells)} :
           p \in {q \in NodesUnder(t, page_number,
                                   Cardinality(DOMAIN t.pages)) :
                    ~IsPointersPage(t.pages[q])}}

\* C22: in every interior node the keys in the subtree of child i are
\* less than separator i, and separator i is less than or equal to the
\* keys in the subtree of child i + 1; the rightmost child holds the keys
\* at or above the last separator.
C22_SeparatorsBoundSubtrees ==
  \A p \in InteriorNodes(tree) :
    \A i \in 1..Len(tree.pages[p].cells) :
      /\ \A k \in KeysUnder(tree, ChildSlots(tree.pages[p])[i]) :
           cmp_(k, tree.pages[p].cells[i].key)
      /\ \A k \in KeysUnder(tree, ChildSlots(tree.pages[p])[i + 1]) :
           ~cmp_(k, tree.pages[p].cells[i].key)

\* C23: after any sequence of inserts all leaves are at the same depth.
C23_LeavesAtOneDepth ==
  /\ Cardinality(LeafDepths(tree, tree.root_page_, 1)) = 1
  /\ Height(tree) >= 1

\* The loop has split the root twice and then an interior page that is
\* not the root.
C23_Witness ==
  /\ Height(tree) = 3
  /\ Cardinality(InteriorNodes(tree)) >= 4

\* C24: after inserts, splits and vacuums the pointers of every slotted
\* page are in strictly ascending order of the keys of their cells.
C24_PointersSortedByKey ==
  \A p \in DOMAIN tree.pages :
    \A i \in 1..(Len(tree.pages[p].cells) - 1) :
      cmp_(tree.pages[p].cells[i].key, tree.pages[p].cells[i + 1].key)

\* A leaf under a root that was split holds a cell that was written after
\* a cell with a greater key: its pointers were sorted.
C24_Witness ==
  /\ Height(tree) = 2
  /\ \E p \in TreeNodes(tree) \ {tree.root_page_} :
     \E i \in 1..(Len(tree.pages[p].cells) - 1) :
       tree.pages[p].cells[i].offset < tree.pages[p].cells[i + 1].offset

\* C25: an interior page with N pointer cells has N + 1 children, the
\* page numbers in its cells and a rightmost child in additional_data
\* that is not zero; each is an allocated, initialized node page of the
\* tree.
C25_InteriorHasAllChildren ==
  \A p \in InteriorNodes(tree) :
    /\ tree.pages[p].additional_data # 0
    /\ \A i \in DOMAIN ChildSlots(tree.pages[p]) :
         /\ ChildSlots(tree.pages[p])[i] \in DOMAIN tree.pages
         /\ ChildSlots(tree.pages[p])[i] < tree.next_page
         /\ ~IsOverflowPage(tree.pages[ChildSlots(tree.pages[p])[i]])
         /\ ~IsRootPage(tree.pages[ChildSlots(tree.pages[p])[i]])

\* An interior page below the root has more than one cell.
C25_Witness ==
  \E p \in InteriorNodes(tree) \ {tree.root_page_} :
    Len(tree.pages[p].cells) > 1

\* C26: the structure is a tree: every node page but the root is in
\* exactly one child slot of exactly one interior page, also after an
\* interior page that is not the root was split.
C26_OneParentSlot ==
  \A q \in TreeNodes(tree) \ {tree.root_page_} :
    Cardinality(UNION {{<<p, i>> :
                          i \in {j \in DOMAIN ChildSlots(tree.pages[p]) :
                                   ChildSlots(tree.pages[p])[j] = q}} :
                         p \in InteriorNodes(tree)}) = 1

\* AddValue finds that the page cannot take the entry and calls splitNode.
NodeIsFull(t, page_number, key, c) ==
  ~(/\ min_space_for_entry_ <= GetDefragmentedFreeSpace(t.pages[page_number])
    /\ NecessarySpace(t, key, c)
         <= GetDefragmentedFreeSpace(t.pages[page_number])
    /\ Len(t.pages[page_number].cells) + 1 <= max_entries_per_page_)

\* splitNode finds that the parent cannot take one more pointer cell.
ParentIsFull(t, page_number, key) ==
  \/ max_entries_per_page_ <= Len(t.pages[page_number].cells)
  \/ Min(max_entry_size_,
         CalculateSpaceRequirements(t.pages[page_number],
                                    key).max_entry_space)
       < MinimumEntrySize

\* AddValue(key, c) on the tree t ends in splitRoot: the leaf is full and
\* so is every page above it.
SplitsRoot(t, key, c) ==
  With(search(t, key), LAMBDA s :
    /\ s.r = "ok"
    /\ NodeIsFull(t, s.node, key, c)
    /\ \A i \in 1..(Len(s.path) - 1) : ParentIsFull(t, s.path[i][1], key))

\* C27: splitting a full root raises the height of the tree by exactly
\* one and the root keeps its page number; both children are newly
\* allocated pages, and the root becomes a pointers page with exactly one
\* cell, the split key pointing to the left child, and additional_data
\* pointing to the live right child.
C27_RootSplitAddsOneLevel ==
  [][(/\ treeOp'.op = "AddValue"
      /\ treeOp'.r = "ok"
      /\ SplitsRoot(tree, SpanValue(treeOp'.key), MakeCreator(treeOp'.doc)))
       => With(tree'.pages[tree'.root_page_], LAMBDA root :
            /\ tree'.root_page_ = tree.root_page_
            /\ Cardinality(LeafDepths(tree', tree'.root_page_, 1)) = 1
            /\ Height(tree') = Height(tree) + 1
            /\ IsPointersPage(root) /\ IsRootPage(root)
            /\ Len(root.cells) = 1
            /\ ChildSlots(root)[1] # ChildSlots(root)[2]
            /\ \A i \in 1..2 :
                 /\ ChildSlots(root)[i] \in DOMAIN tree'.pages
                 /\ ChildSlots(root)[i] \notin DOMAIN tree.pages
                 /\ ~IsOverflowPage(tree'.pages[ChildSlots(root)[i]])
            /\ root.cells[1].key
                 = With(tree.pages[tree.root_page_], LAMBDA old :
                     old.cells[NumToMove(tree, old) + 1].key)
            /\ \A k \in KeysUnder(tree', ChildSlots(root)[1]) :
                 lte(k, root.cells[1].key)
            /\ \A k \in KeysUnder(tree', ChildSlots(root)[2]) :
                 ~lte(k, root.cells[1].key))]_vars

\* The leaves that a split of the page leaves its cells in: the page, when
\* it is still a leaf, and the leaves that were allocated for the split.
SplitLeaves(t, after, page_number) ==
  {p \in DOMAIN after.pages :
     /\ ~IsOverflowPage(after.pages[p])
     /\ ~IsPointersPage(after.pages[p])
     /\ p = page_number \/ p \notin DOMAIN t.pages}

\* The places among the pages where a cell with this key, these flags and
\* this entry is.
PlacesOf(t, among, key, flags, entry) ==
  UNION {{<<p, i>> : i \in {j \in DOMAIN t.pages[p].cells :
                              /\ t.pages[p].cells[j].key = key
                              /\ t.pages[p].cells[j].flags = flags
                              /\ t.pages[p].cells[j].entry = entry}} :
           p \in among}

\* The places among the pages where a cell with this key is.
PlacesOfKey(t, among, key) ==
  UNION {{<<p, i>> : i \in {j \in DOMAIN t.pages[p].cells :
                              t.pages[p].cells[j].key = key}} :
           p \in among}

\* C28: a split of a leaf, root or not, preserves its entries: every cell
\* (key, flags, payload) of the leaf before the split is afterwards
\* exactly once in exactly one of the two resulting leaves, an overflow
\* header is still an overflow header, and the entry that provoked the
\* split is stored in exactly one of the two.
C28_LeafSplitPreservesEntries ==
  [][(/\ treeOp'.op = "AddValue"
      /\ treeOp'.r = "ok"
      /\ search(tree, SpanValue(treeOp'.key)).r = "ok"
      /\ NodeIsFull(tree, search(tree, SpanValue(treeOp'.key)).node,
                    SpanValue(treeOp'.key), MakeCreator(treeOp'.doc)))
       => With(search(tree, SpanValue(treeOp'.key)).node, LAMBDA leaf :
           With(SplitLeaves(tree, tree', leaf), LAMBDA among :
            /\ Cardinality(among) = 2
            /\ \A i \in DOMAIN tree.pages[leaf].cells :
                 With(tree.pages[leaf].cells[i], LAMBDA cell :
                   /\ Cardinality(PlacesOf(tree', among, cell.key,
                                           cell.flags, cell.entry)) = 1
                   /\ cell.key # SpanValue(treeOp'.key)
                        => Cardinality(PlacesOfKey(tree', among,
                                                   cell.key)) = 1)
            /\ Cardinality(PlacesOfKey(tree', among,
                                       SpanValue(treeOp'.key)))
                 = 1
            /\ \A p \in among : \A j \in DOMAIN tree'.pages[p].cells :
                 tree'.pages[p].cells[j].key = SpanValue(treeOp'.key)
                   => \/ tree'.pages[p].cells[j].entry
                           = [kind |-> "single", doc |-> treeOp'.doc]
                      \/ tree'.pages[p].cells[j].entry.kind = "overflow"
                      \/ \E i \in DOMAIN tree.pages[leaf].cells :
                           tree.pages[leaf].cells[i].key
                             = SpanValue(treeOp'.key)))]_vars

\* The frames of the cache that hold a page.
ValidSlots(c) == {s \in Slots : c.page_descriptors_[s].valid}

\* C30: after every cache operation (get, get_new, handle drop, eviction,
\* allocation of a page number that the DAL has recycled) every valid
\* frame has its page number registered in the frame index as mapping to
\* that frame, no page number is in two frames, every frame that is not
\* valid is in the free-slot list of the cache, and the registered pages
\* and the free slots together are as many as the cache has frames.
C30_FrameIndexMatchesFrames ==
  /\ \A s \in ValidSlots(page_cache) :
       /\ page_cache.page_descriptors_[s].page_number
            \in DOMAIN page_cache.page_number_to_slot_
       /\ page_cache.page_number_to_slot_[
            page_cache.page_descriptors_[s].page_number] = s
  /\ \A s1, s2 \in ValidSlots(page_cache) :
       page_cache.page_descriptors_[s1].page_number
         = page_cache.page_descriptors_[s2].page_number => s1 = s2
  /\ \A s \in Slots \ ValidSlots(page_cache) :
       Contains(page_cache.cache_free_list_.freed_pages_, s)
  /\ Cardinality(DOMAIN page_cache.page_number_to_slot_)
       + Len(page_cache.cache_free_list_.freed_pages_) = CacheSize


\* The node pages of the file that a split made: every page but the roots
\* of the trees and the overflow pages.
SplitPages(t) ==
  {p \in DOMAIN t.pages :
     ~IsRootPage(t.pages[p]) /\ ~IsOverflowPage(t.pages[p])}

\* C29: in a tree with string keys every node page created by a split
\* stores keys as the root does, with their sizes, so every key stored in
\* or copied into such a page is read back byte for byte as it was written.
C29_SplitPagesEncodeKeysAsRoot ==
  tree.key_type_ = "String" =>
    \A p \in SplitPages(tree) :
      /\ AreKeySizesSpecified(tree.pages[p])
           = AreKeySizesSpecified(tree.pages[tree.root_page_])
      /\ \A i \in DOMAIN tree.pages[p].cells :
           getKeyForCell(tree.pages[p], tree.pages[p].cells[i])
             = tree.pages[p].cells[i].key

\* The number of pages of the file that are allocated: no page is
\* released while the trees are filled.
NumPages(t) == t.next_page

\* GetRequestedSize asks for an overflow header when the entry is added to
\* the leaf that search finds for the key.
NeedsOverflow(t, key, c) ==
  With(search(t, key), LAMBDA s :
    /\ s.r = "ok"
    /\ MaximumEntrySize(t.pages[s.node], key)
         < PageSizeT((IF c.serialize_size_ THEN 2 ELSE 0)
                     + GetRequiredSize(c.payload)))

\* AddValue splits the leaf that search finds for the key.
SplitsLeaf(t, key, c) ==
  With(search(t, key), LAMBDA s :
    s.r = "ok" /\ NodeIsFull(t, s.node, key, c))

\* A new database has three pages, and an insert that neither splits a
\* node nor needs overflow allocates no page.
PagesOfInserts ==
  /\ treeOp.op = "DataManager" => NumPages(tree) = 3
  /\ (/\ treeOp'.op = "AddValue"
      /\ ~SplitsLeaf(tree, SpanValue(treeOp'.key), MakeCreator(treeOp'.doc))
      /\ ~NeedsOverflow(tree, SpanValue(treeOp'.key),
                        MakeCreator(treeOp'.doc)))
       => NumPages(tree') = NumPages(tree)

\* C21 as stated: a freshly created database has exactly 3 allocated pages
\* (meta, free list, collection-index root); adding a collection allocates
\* exactly one further page (its root); and inserts that neither split a
\* node nor need overflow allocate no pages.
C21_CollectionTakesOnePage ==
  [][/\ PagesOfInserts
     /\ treeOp'.op = "AddCollection"
          => NumPages(tree') = NumPages(tree) + 1]_vars

\* C21, amended: a freshly created database has exactly 3 allocated pages;
\* adding a collection allocates exactly one further page (its root) when
\* the insert of its name neither splits a node of the collection index
\* nor needs overflow, and three pages (its root and the two children of
\* the index root) when it splits the root of the index; and inserts that
\* neither split a node nor need overflow allocate no pages.
C21_CollectionTakesOnePageUnlessSplit ==
  [][/\ PagesOfInserts
     /\ treeOp'.op = "AddCollection"
          => With(MakeCreator(treeOp'.doc), LAMBDA c :
               With(CollectionName(treeOp'.key), LAMBDA name :
                 /\ (~SplitsLeaf(tree, name, c)
                       /\ ~NeedsOverflow(tree, name, c))
                      => NumPages(tree') = NumPages(tree) + 1
                 /\ (SplitsLeaf(tree, name, c)
                       /\ IsRootPage(tree.pages[search(tree, name).node]))
                      => NumPages(tree') = NumPages(tree) + 3))]_vars

\* A collection was added whose name split the root of the index: six
\* pages became nine.
C21_Witness ==
  /\ treeOp.op = "AddCollection"
  /\ treeOp.r = "ok"
  /\ IsPointersPage(tree.pages[IndexPage])
  /\ treeOp.doc.id = NumPages(tree) - 3
  /\ Cardinality(SplitPages(tree)) = 2


\* C31: a GetPage that fails because the page number is not allocated leaves
\* no frame valid or registered for that page number, and the same GetPage
\* made again fails with the same error.
C31_FailedGetLeavesNoFrame ==
  (cacheOp.op = "GetPage" /\ cacheOp.result = "RequireFailed") =>
    /\ cacheOp.page \notin DOMAIN page_cache.page_number_to_slot_
    /\ \A s \in ValidSlots(page_cache) :
         page_cache.page_descriptors_[s].page_number # cacheOp.page
    /\ PageCacheGetPage(page_cache, cacheOp.page,
                        GetNumAllocatedPages(free_list_)).result
         = "RequireFailed"

\* C32: a write through the handle that is not suppressed marks the frame
\* dirty and appends exactly one UPDATE record; its old_bytes are the bytes
\* that were at the offset before the write, its new_bytes the bytes
\* written, and both are as long as the write.
C32_WriteAppendsOneUpdate ==
  [][(frame'.last.writes # frame.last.writes
        /\ frame'.last.r = "ok" /\ ~frame'.last.omit_log) =>
       /\ page_cache'.page_descriptors_[cacheOp.slot].dirty
       /\ Len(frame'.log) = Len(frame.log) + 1
       /\ Len(wal_'.buffer_) + Len(wal_'.log_file_)
            = Len(wal_.buffer_) + Len(wal_.log_file_) + 1
       /\ Last(wal_'.buffer_).type = "UPDATE"
       /\ Last(wal_'.buffer_).lsn = Last(frame'.log).lsn
       /\ Last(frame'.log).offset = frame'.last.offset
       /\ Last(frame'.log).new_bytes = frame'.last.data
       /\ Last(frame'.log).old_bytes
            = GetSpan(frame, frame'.last.offset, Len(frame'.last.data))
       /\ Len(Last(frame'.log).old_bytes) = Len(Last(frame'.log).new_bytes)
       /\ SubSeq(frame'.log, 1, Len(frame.log)) = frame.log]_vars

\* A logged move of two bytes one byte up has been made: the ranges of the
\* write overlap.
C32_Witness ==
  /\ frame.last.op = "MoveInPage"
  /\ frame.last.r = "ok"
  /\ Len(frame.last.data) = 2
  /\ frame.log # <<>>
  /\ Last(frame.log).old_bytes # Last(frame.log).new_bytes
  /\ frame.last.writes = MaxFrameWrites

RECURSIVE Redo(_, _)

\* The image that the new_bytes of the records give when they are applied
\* in the order of the log.
Redo(image, log) ==
  IF log = <<>> THEN image
  ELSE Redo([i \in 1..Len(image) |->
               IF i \in (log[1].offset + 1)
                          ..(log[1].offset + Len(log[1].new_bytes))
               THEN log[1].new_bytes[i - log[1].offset]
               ELSE image[i]],
            Tail(log))

\* C33: when no write of the page was suppressed, the new_bytes of the
\* page's UPDATE records, applied in LSN order to the image with which the
\* page entered the cache, give the page's cached image, also after moves
\* whose source and destination overlap.
C33_LogRedoesPage ==
  (frame.last.op # "none" /\ frame.last.unlogged = 0) =>
    /\ \A i \in 1..(Len(frame.log) - 1) :
         frame.log[i].lsn < frame.log[i + 1].lsn
    /\ Redo(frame.entered, frame.log) = frame.data_

\* C34: after any sequence of BEGIN, COMMIT and UPDATE appends the bytes
\* held in the WAL's buffer are never more than the buffer can hold, and
\* no record is larger than the buffer.
C34_BufferWithinCapacity ==
  /\ wal_.buffer_usage_ <= WalBufferSize
  /\ \A i \in DOMAIN wal_.buffer_ :
       /\ wal_.buffer_[i].last <= WalBufferSize
       /\ wal_.buffer_[i].last
            - (IF i = 1 THEN 0 ELSE wal_.buffer_[i - 1].last)
            <= WalBufferSize

\* C35: after every insert, split and vacuum every node page has
\* free_begin <= free_end <= reserved_start <= page size.
C35_HeaderOffsetsOrdered ==
  \A p \in DOMAIN tree.pages :
    /\ GetFreeBegin(tree.pages[p]) <= tree.pages[p].free_end
    /\ tree.pages[p].free_end <= tree.pages[p].reserved_start
    /\ tree.pages[p].reserved_start <= PageSize

\* A page that a split left behind has been vacuumed (vacuum counts four
\* bytes for the size of an entry, so none of its cells ends at
\* reserved_start any more), and some page has no room for another
\* pointer and cell header.
C35_Witness ==
  /\ \E p \in DOMAIN tree.pages :
       /\ ~IsOverflowPage(tree.pages[p])
       /\ ~IsPointersPage(tree.pages[p])
       /\ tree.pages[p].cells # <<>>
       /\ \A i \in DOMAIN tree.pages[p].cells :
            tree.pages[p].cells[i].offset + CellBytes(tree.pages[p].cells[i])
              < tree.pages[p].reserved_start
  /\ \E p \in DOMAIN tree.pages :
       /\ ~IsOverflowPage(tree.pages[p])
       /\ GetDefragmentedFreeSpace(tree.pages[p]) < min_space_for_entry_

\* The pages that the DAL has handed out and not taken back.
Allocated(p) ==
  /\ p < GetNumAllocatedPages(free_list_)
  /\ \A i \in DOMAIN free_list_.freed_pages_ : free_list_.freed_pages_[i] # p

\* C36: after any sequence of allocations, evictions and reloads the
\* header of every allocated and initialized page holds the page number
\* under which the page is stored (in the file, or in its frame while it
\* is cached) and fetched.
C36_HeaderHasOwnPageNumber ==
  /\ \A p \in store.initialized :
       Allocated(p) =>
         IF p \in DOMAIN page_cache.page_number_to_slot_
         THEN store.frames[page_cache.page_number_to_slot_[p]] = p
         ELSE store.file[p] = p
  /\ (cacheOp.op = "loadNodePage" /\ cacheOp.page \in store.initialized)
       => cacheOp.result \in {"ok", "CacheExhausted"}

\* A page that was evicted has been read back from the file into a frame
\* out of which another initialized page was evicted for it.
C36_Witness ==
  /\ cacheOp.op = "loadNodePage"
  /\ cacheOp.result = "ok"
  /\ cacheOp.evicted # NoPage
  /\ cacheOp.written # <<>>
  /\ cacheOp.page \in store.initialized
  /\ store.frames[cacheOp.slot] = cacheOp.page
  /\ Cardinality(store.initialized) >= 3

RECURSIVE LiveSize(_, _)

\* The total of GetCellSize over the first k cells of the page.
LiveSize(n, k) ==
  IF k = 0 THEN 0 ELSE GetCellSize(n, n.cells[k]) + LiveSize(n, k - 1)

\* What C37 says of a page and the page that vacuum made of it.
VacuumKeepsCells(n, v) ==
  /\ Len(v.cells) = Len(n.cells)
  /\ \A i \in DOMAIN n.cells :
       /\ v.cells[i].key = n.cells[i].key
       /\ v.cells[i].flags = n.cells[i].flags
       /\ v.cells[i].entry = n.cells[i].entry
  /\ \A i \in DOMAIN v.cells :
       \/ v.cells[i].offset + GetCellSize(v, v.cells[i]) = v.reserved_start
       \/ \E j \in DOMAIN v.cells :
            v.cells[j].offset = v.cells[i].offset + GetCellSize(v, v.cells[i])
  /\ v.free_end = v.reserved_start - LiveSize(v, Len(v.cells))

\* C37: vacuuming a node page changes neither the number of its pointers
\* nor the key, flags and payload of the cell of any pointer; afterwards
\* the live cells are contiguous up to reserved_start and free_end is
\* reserved_start less the total size of the live cells.  The pages are
\* those that splitSingleNode hands to vacuum when a document is added.
C37_VacuumKeepsCells ==
  \A key \in Keys : \A doc \in Documents(key) : \A mode \in MemcpyModes :
    With(search(tree, SpanValue(key)), LAMBDA s :
      (/\ s.r = "ok"
       /\ ~IsRootPage(tree.pages[s.node])
       /\ NodeIsFull(tree, s.node, SpanValue(key), MakeCreator(doc)))
        => With(splitCells(tree, s.node,
                           [key |-> SpanValue(key), c |-> MakeCreator(doc)]),
                LAMBDA a :
             (a.r \in {"true", "false"}
                /\ vacuum(a.t, s.node, mode).r = "ok")
               => VacuumKeepsCells(a.t.pages[s.node],
                                   vacuum(a.t, s.node, mode).t.pages[s.node])))

\* C38: every continuation entry of an overflow chain carries at least
\* min(16, payload still to be written) bytes, a new overflow page having
\* been taken before the write whenever the current one could not hold
\* that much, and the chain holds the whole payload.
C38_ChunksCarryMinimum ==
  \A chain \in chains :
    With(OverflowEntryRead(tree, chain.overflow_key, chain.page_number,
                           <<>>, <<>>),
         LAMBDA o :
      /\ o.r = "ok"
      /\ \A i \in DOMAIN o.pieces :
           o.pieces[i].len
             >= Min(min_overflow_entry_capacity_,
                    chain.doc.size - o.pieces[i].from)
      /\ o.pieces[Len(o.pieces)].from + o.pieces[Len(o.pieces)].len
           = chain.doc.size)

\* C39: for every exponent p with 9 <= p <= 16 that a Meta holds, whether
\* from its constructor or from deserialize, its page size is exactly 2^p:
\* the stored value has not wrapped around.
C39_PageSizeIsPowerOfTwo ==
  (9 <= meta_.page_size_power_ /\ meta_.page_size_power_ <= 16)
    => meta_.page_size_ = 2 ^ meta_.page_size_power_

\* C40: a FixedStack of capacity StackSize_v holds between 0 and
\* StackSize_v elements after every call; Push on a full stack and Pop on an
\* empty stack leave buffer_ and size_ as they were (the calls are noexcept
\* and have no other outcome); Top on an empty stack returns an optional
\* without a value and changes nothing.
C40_StackNeverOverflows ==
  [][/\ fixed_stack'.s.size_ \in 0..StackSize_v
     /\ (fixed_stack'.op = "Push" /\ Full(fixed_stack.s))
          => fixed_stack'.s = fixed_stack.s
     /\ (fixed_stack'.op = "Pop" /\ Empty(fixed_stack.s))
          => fixed_stack'.s = fixed_stack.s
     /\ (fixed_stack'.op = "Top" /\ Empty(fixed_stack.s))
          => (~fixed_stack'.top.has_value
                /\ fixed_stack'.s = fixed_stack.s)]_vars

\* A Push that was made on a full stack and left it full.
C40_Witness ==
  /\ fixed_stack.op = "Push"
  /\ fixed_stack.size = StackSize_v
  /\ fixed_stack.s.size_ = StackSize_v

====
